---- MODULE Spec2Model ----
(***************************************************************************)
(* Abelian sandpile relaxation: the serial variant (sandpile_serial.c) and *)
(* the distributed variant (test.c: row bands, halo exchange with          *)
(* MPI_Sendrecv, MPI_Allreduce consensus, MPI_Gatherv assembly).           *)
(* Buffers are C arrays: functions over 0..n-1, row-major, cols = width+2. *)
(* EnvSpec adds sandpile_mpi.c, where every process relaxes the whole grid, *)
(* and the calls the environment can refuse (malloc/calloc, fopen).        *)
(* OmpSpec adds sandpile_OpenMP.c: a team of threads sharing both buffers, *)
(* the cells of a sweep divided among the threads.                         *)
(***************************************************************************)
EXTENDS Integers, Sequences, FiniteSets, TLC

\* ---- bounds of the model -------------------------------------------------
MaxHeight == 3
MaxWidth == 3
MaxSize == 3
MaxSweeps == 8
\* other seeds than the program's: grids of at most SeedMaxCells interior
\* cells, each cell empty or toppling twice with a remainder
SeedMaxCells == 3
\* every visiting order of the cells is tried on partitions of at most
\* MaxOrderCells cells
MaxOrderCells == 4
\* OpenMP teams of 1 .. MaxThreads threads, on grids of at most OmpMaxCells
\* interior cells
MaxThreads == 2
OmpMaxCells == 4
\* the grains a cell of a varied seed can hold
SeedGrains == {0, 9}

\* ---- program constants ---------------------------------------------------
\* grains put in every interior cell by the initialisation loop
SEED == 4
\* toppling threshold: the divisor and modulus of the update rule
TOPPLE == 4
\* marker for a cell of a malloc'ed buffer that was never written
UNINIT == -1

VARIABLES
    variant,        \* which program is running: "serial", "mpi" (test.c),
                    \* "replicated" (sandpile_mpi.c), "omp" (sandpile_OpenMP.c)
    height,         \* N (global_height)
    width,          \* M
    size,           \* MPI_Comm_size (1 for the serial program)
    seed,           \* per rank: the grains the initialisation loop gives to
                    \* each owned cell (row-major); the program's value is SEED
    pc,             \* per rank: position in main
    sand,           \* per rank: the current buffer
    next,           \* per rank: the next buffer
    y,              \* per rank: row index of the compute loop
    x,              \* per rank: column index of the compute loop
    local_changed,  \* per rank: test.c local_changed
    global_changed, \* per rank: test.c global_changed
    changed,        \* per process: the loop flag of the programs without
                    \* communication (serial, sandpile_mpi.c)
    sweeps,         \* per rank: number of completed sweeps (buffer swaps)
    chan,           \* chan[from][to]: rows sent and not yet received
    contrib,        \* per rank: values handed to MPI_Allreduce, in call order
    gatherMsg,      \* per rank: local_pixels handed to MPI_Gather
    gathervMsg,     \* per rank: sendbuf handed to MPI_Gatherv
    recvcounts,     \* rank 0: recvcounts array
    displs,         \* rank 0: displs array
    final_data,     \* per rank: [null, data] the final_data pointer
    sendbuf,        \* per rank: flattened interior cells
    fp,             \* per rank: the FILE pointer: "unset", "null", "open", "closed"
    out,            \* per rank: what the process wrote through fp
    stderr,         \* per rank: tags of the messages written to stderr
    exit_status,    \* per rank: "running" until the process has ended
    aborting,       \* MPI_Abort was called on MPI_COMM_WORLD
    team            \* sandpile_OpenMP.c, the team and its parallel region:
                    \*   nthreads: size of the team
                    \*   assign: per iteration of the collapsed loop, the
                    \*     threads that execute it in the running region
                    \*   wrote: per iteration, the threads that have
                    \*     executed it
                    \*   priv: per thread, its private copy of changed_int
                    \*   changed_int: changed_int (0 or 1, as a boolean)

config == <<variant, height, width, size, seed>>

io == <<fp, out, stderr, exit_status, aborting>>

omp == <<team>>

vars == <<variant, height, width, size, seed, pc, sand, next, y, x, local_changed,
          global_changed, changed, sweeps, chan, contrib, gatherMsg,
          gathervMsg, recvcounts, displs, final_data, sendbuf, fp, out,
          stderr, exit_status, aborting, team>>

Ranks == 0 .. size - 1

\* ---- C integer arithmetic (truncating division) ---------------------------
CDiv(a, b) == IF a >= 0 THEN a \div b ELSE -((-a) \div b)

CMod(a, b) == a - b * CDiv(a, b)

\* ---- layout ---------------------------------------------------------------
Cols == width + 2

\* mutant of LocalHeight: the remainder test is rank <= rem
LocalHeight_RemOffByOne(rank) ==
    IF variant = "serial" THEN height
    ELSE LET base == CDiv(height, size)
             rem == CMod(height, size)
         IN IF rank <= rem THEN base + 1 ELSE base

\* test.c 33-37: rows owned by a rank
LocalHeight(rank) ==
    IF variant = "serial" THEN height
    ELSE LET base == CDiv(height, size)
             rem == CMod(height, size)
         IN IF rank < rem THEN base + 1 ELSE base

\* test.c 39
LocalRows(rank) == LocalHeight(rank) + 2

\* test.c 111
LocalPixels(rank) == LocalHeight(rank) * width

ZeroArr(n) == [i \in 0 .. n - 1 |-> 0]

\* the cols ints that start at buf[start]
RowAt(buf, start) == [i \in 0 .. Cols - 1 |-> buf[start + i]]

\* buf with the cols ints at start replaced by row
PutRow(buf, start, row) ==
    [i \in DOMAIN buf |->
        IF i >= start /\ i < start + Cols THEN row[i - start] ELSE buf[i]]

\* mutant of SeedInterior: the column loop starts at x = 0
SeedInterior_FromColumn0(buf, lh, sd) ==
    [i \in DOMAIN buf |->
        IF /\ i \div Cols >= 1 /\ i \div Cols <= lh
           /\ i % Cols >= 0 /\ i % Cols <= width
        THEN SEED ELSE buf[i]]

\* mutant of SeedInterior: the row loop runs to y < local_rows, through the
\* bottom halo row
SeedInterior_ThroughHaloRow(buf, lh, sd) ==
    [i \in DOMAIN buf |->
        IF /\ i \div Cols >= 1 /\ i \div Cols <= lh + 1
           /\ i % Cols >= 1 /\ i % Cols <= width
        THEN SEED ELSE buf[i]]

\* the initialisation loop: for y in 1..lh, x in 1..width the cell
\* buf[y * cols + x] gets its seed
SeedInterior(buf, lh, sd) ==
    [i \in DOMAIN buf |->
        IF /\ i \div Cols >= 1 /\ i \div Cols <= lh
           /\ i % Cols >= 1 /\ i % Cols <= width
        THEN sd[((i \div Cols) - 1) * width + ((i % Cols) - 1)] ELSE buf[i]]

\* ---- the cell update rule ---------------------------------------------------
\* mutant of sync_compute_new_state: the row above is read twice, the row
\* below never
sync_compute_new_state_UpTwice(sandBuf, nextBuf, cols, yy, xx) ==
    LET idx == yy * cols + xx
        v == CMod(sandBuf[idx], TOPPLE)
             + CDiv(sandBuf[idx - 1], TOPPLE)
             + CDiv(sandBuf[idx + 1], TOPPLE)
             + CDiv(sandBuf[idx - cols], TOPPLE)
             + CDiv(sandBuf[idx - cols], TOPPLE)
    IN [next |-> [nextBuf EXCEPT ![idx] = v],
        ret |-> (v # sandBuf[idx])]

\* mutant of sync_compute_new_state: the cell's own term is / 4, not % 4
sync_compute_new_state_DividesSelf(sandBuf, nextBuf, cols, yy, xx) ==
    LET idx == yy * cols + xx
        v == CDiv(sandBuf[idx], TOPPLE)
             + CDiv(sandBuf[idx - 1], TOPPLE)
             + CDiv(sandBuf[idx + 1], TOPPLE)
             + CDiv(sandBuf[idx - cols], TOPPLE)
             + CDiv(sandBuf[idx + cols], TOPPLE)
    IN [next |-> [nextBuf EXCEPT ![idx] = v],
        ret |-> (v # sandBuf[idx])]

\* mutant of sync_compute_new_state: the cell keeps all its grains (no % 4)
sync_compute_new_state_KeepsGrains(sandBuf, nextBuf, cols, yy, xx) ==
    LET idx == yy * cols + xx
        v == sandBuf[idx]
             + CDiv(sandBuf[idx - 1], TOPPLE)
             + CDiv(sandBuf[idx + 1], TOPPLE)
             + CDiv(sandBuf[idx - cols], TOPPLE)
             + CDiv(sandBuf[idx + cols], TOPPLE)
    IN [next |-> [nextBuf EXCEPT ![idx] = v],
        ret |-> (v # sandBuf[idx])]

\* mutant of sync_compute_new_state: the left neighbour is read from the next
\* buffer
sync_compute_new_state_ReadsNextLeft(sandBuf, nextBuf, cols, yy, xx) ==
    LET idx == yy * cols + xx
        v == CMod(sandBuf[idx], TOPPLE)
             + CDiv(nextBuf[idx - 1], TOPPLE)
             + CDiv(sandBuf[idx + 1], TOPPLE)
             + CDiv(sandBuf[idx - cols], TOPPLE)
             + CDiv(sandBuf[idx + cols], TOPPLE)
    IN [next |-> [nextBuf EXCEPT ![idx] = v],
        ret |-> (v # sandBuf[idx])]

\* mutant of sync_compute_new_state: the grains toppling in from the left
\* neighbour are left out
sync_compute_new_state_DropsLeft(sandBuf, nextBuf, cols, yy, xx) ==
    LET idx == yy * cols + xx
        v == CMod(sandBuf[idx], TOPPLE)
             + CDiv(sandBuf[idx + 1], TOPPLE)
             + CDiv(sandBuf[idx - cols], TOPPLE)
             + CDiv(sandBuf[idx + cols], TOPPLE)
    IN [next |-> [nextBuf EXCEPT ![idx] = v],
        ret |-> (v # sandBuf[idx])]

\* returns the new next buffer and the return value
sync_compute_new_state(sandBuf, nextBuf, cols, yy, xx) ==
    LET idx == yy * cols + xx
        v == CMod(sandBuf[idx], TOPPLE)
             + CDiv(sandBuf[idx - 1], TOPPLE)
             + CDiv(sandBuf[idx + 1], TOPPLE)
             + CDiv(sandBuf[idx - cols], TOPPLE)
             + CDiv(sandBuf[idx + cols], TOPPLE)
    IN [next |-> [nextBuf EXCEPT ![idx] = v],
        ret |-> (v # sandBuf[idx])]

\* mutant of OrAssign: plain assignment, flag = ret
OrAssign_Overwrites(flag, ret) == ret

\* mutant of OrAssign: flag &= ret
OrAssign_AndAssign(flag, ret) == flag /\ ret

\* the compound assignment flag |= ret
OrAssign(flag, ret) == flag \/ ret

\* cells owned by the ranks below a rank
RECURSIVE BandStart(_)
BandStart(rank) ==
    IF rank = 0 THEN 0 ELSE BandStart(rank - 1) + LocalPixels(rank - 1)

\* ---- initial state ---------------------------------------------------------
NullPtr == [null |-> TRUE, data |-> <<>>]

\* everything but the configuration: nothing allocated, nothing sent
InitRun ==
    /\ pc = [r \in Ranks |-> "start"]
    /\ sand = [r \in Ranks |-> <<>>]
    /\ next = [r \in Ranks |-> <<>>]
    /\ y = [r \in Ranks |-> 0]
    /\ x = [r \in Ranks |-> 0]
    /\ local_changed = [r \in Ranks |-> FALSE]
    /\ global_changed = [r \in Ranks |-> TRUE]
    /\ changed = [r \in Ranks |-> TRUE]
    /\ sweeps = [r \in Ranks |-> 0]
    /\ chan = [p \in Ranks |-> [q \in Ranks |-> <<>>]]
    /\ contrib = [r \in Ranks |-> <<>>]
    /\ gatherMsg = [r \in Ranks |-> <<>>]
    /\ gathervMsg = [r \in Ranks |-> <<>>]
    /\ recvcounts = <<>>
    /\ displs = <<>>
    /\ final_data = [r \in Ranks |-> NullPtr]
    /\ sendbuf = [r \in Ranks |-> <<>>]
    /\ fp = [r \in Ranks |-> "unset"]
    /\ out = [r \in Ranks |-> <<>>]
    /\ stderr = [r \in Ranks |-> <<>>]
    /\ exit_status = [r \in Ranks |-> "running"]
    /\ aborting = FALSE
    /\ \E n \in (IF variant = "omp" THEN 1 .. MaxThreads ELSE {1}) :
          team = [nthreads |-> n, assign |-> <<>>, wrote |-> <<>>,
                  priv |-> <<>>, changed_int |-> FALSE]

\* N, M and the number of processes are chosen at build and launch time; the
\* seed is the program's: SEED grains in every interior cell
Init ==
    /\ variant \in {"serial", "mpi"}
    /\ height \in 1 .. MaxHeight
    /\ width \in 1 .. MaxWidth
    /\ size \in (IF variant = "serial" THEN {1} ELSE 1 .. MaxSize)
    /\ seed = [r \in Ranks |-> [k \in 0 .. LocalPixels(r) - 1 |-> SEED]]
    /\ InitRun

\* the seed as a variation point: the configurations of Init, and on small
\* grids every seed with SeedGrains in a cell; each rank seeds its
\* own band of the global seed g
InitAnySeed ==
    /\ variant \in {"serial", "mpi"}
    /\ height \in 1 .. MaxHeight
    /\ width \in 1 .. MaxWidth
    /\ size \in (IF variant = "serial" THEN {1} ELSE 1 .. MaxSize)
    /\ \/ seed = [r \in Ranks |-> [k \in 0 .. LocalPixels(r) - 1 |-> SEED]]
       \/ /\ height * width <= SeedMaxCells
          /\ \E g \in [0 .. height * width - 1 -> SeedGrains] :
                seed = [r \in Ranks |->
                          [k \in 0 .. LocalPixels(r) - 1 |->
                              g[BandStart(r) + k]]]
    /\ InitRun

\* ---- distributed variant (test.c) -------------------------------------------
\* mutant of LoopBody: a rank without rows skips both exchanges
LoopBody_IdleSkipsExchange(r) ==
    IF LocalHeight(r) = 0 THEN "compute"
    ELSE IF r > 0 THEN "sendrecvUp"
    ELSE IF r < size - 1 THEN "sendrecvDown" ELSE "compute"

\* mutant of LoopBody: the halo rows are exchanged before the first sweep only
LoopBody_ExchangeOnce(r) ==
    IF sweeps[r] > 0 THEN "compute"
    ELSE IF r > 0 THEN "sendrecvUp"
    ELSE IF r < size - 1 THEN "sendrecvDown" ELSE "compute"

\* where the loop body starts for a rank: the first exchange it takes part in
LoopBody(r) ==
    IF r > 0 THEN "sendrecvUp"
    ELSE IF r < size - 1 THEN "sendrecvDown" ELSE "compute"

\* test.c 41-57: calloc both buffers, seed the interior, global_changed = true
Initialize(r) ==
    /\ variant = "mpi"
    /\ pc[r] = "start"
    /\ sand' = [sand EXCEPT
                  ![r] = SeedInterior(ZeroArr(LocalRows(r) * Cols), LocalHeight(r), seed[r])]
    /\ next' = [next EXCEPT ![r] = ZeroArr(LocalRows(r) * Cols)]
    /\ global_changed' = [global_changed EXCEPT ![r] = TRUE]
    /\ pc' = [pc EXCEPT ![r] = LoopBody(r)]
    /\ UNCHANGED <<config, omp, io, y, x, local_changed, changed,
                   sweeps, chan, contrib, gatherMsg, gathervMsg, recvcounts,
                   displs, final_data, sendbuf>>

\* mutant of FirstInteriorRow: the top halo row is sent instead
FirstInteriorRow_SendsHalo(r) == 0 * Cols

\* test.c 63: &sand[1 * cols], the row sent to rank-1
FirstInteriorRow(r) == 1 * Cols

\* mutant of TopHaloRow: the row of rank-1 is received into the bottom halo
\* row
TopHaloRow_IntoBottomHalo(r) == (LocalHeight(r) + 1) * Cols

\* test.c 64: &sand[0 * cols], the row received from rank-1
TopHaloRow(r) == 0 * Cols

\* mutant of LastInteriorRow: the bottom halo row is sent instead
LastInteriorRow_SendsHalo(r) == (LocalHeight(r) + 1) * Cols

\* test.c 74: &sand[local_height * cols], the row sent to rank+1
LastInteriorRow(r) == LocalHeight(r) * Cols

\* test.c 75: &sand[(local_height + 1) * cols], the row received from rank+1
BottomHaloRow(r) == (LocalHeight(r) + 1) * Cols

\* mutant of SendrecvUpPost: the send is issued and the rank goes on without
\* waiting for the row of rank-1
SendrecvUpPost_NoWait(r) ==
    /\ variant = "mpi"
    /\ pc[r] = "sendrecvUp"
    /\ chan' = [chan EXCEPT ![r][r - 1] = Append(@, RowAt(sand[r], FirstInteriorRow(r)))]
    /\ pc' = [pc EXCEPT ![r] = IF r < size - 1 THEN "sendrecvDown" ELSE "compute"]
    /\ UNCHANGED <<config, omp, io, sand, next, y, x,
                   local_changed, global_changed, changed, sweeps, contrib,
                   gatherMsg, gathervMsg, recvcounts, displs, final_data,
                   sendbuf>>

\* test.c 61-66, first half: the send of the first interior row is issued
SendrecvUpPost(r) ==
    /\ variant = "mpi"
    /\ pc[r] = "sendrecvUp"
    /\ chan' = [chan EXCEPT ![r][r - 1] = Append(@, RowAt(sand[r], FirstInteriorRow(r)))]
    /\ pc' = [pc EXCEPT ![r] = "sendrecvUpWait"]
    /\ UNCHANGED <<config, omp, io, sand, next, y, x,
                   local_changed, global_changed, changed, sweeps, contrib,
                   gatherMsg, gathervMsg, recvcounts, displs, final_data,
                   sendbuf>>

\* test.c 61-66, second half: the row of rank-1 arrives in the top halo row
SendrecvUpDone(r) ==
    /\ variant = "mpi"
    /\ pc[r] = "sendrecvUpWait"
    /\ chan[r - 1][r] # <<>>
    /\ sand' = [sand EXCEPT ![r] = PutRow(@, TopHaloRow(r), Head(chan[r - 1][r]))]
    /\ chan' = [chan EXCEPT ![r - 1][r] = Tail(@)]
    /\ pc' = [pc EXCEPT ![r] = IF r < size - 1 THEN "sendrecvDown" ELSE "compute"]
    /\ UNCHANGED <<config, omp, io, next, y, x, local_changed,
                   global_changed, changed, sweeps, contrib, gatherMsg,
                   gathervMsg, recvcounts, displs, final_data, sendbuf>>

\* mutant of SendrecvDownPost: the rank only receives from rank+1, the row for
\* it is not sent
SendrecvDownPost_RecvOnly(r) ==
    /\ variant = "mpi"
    /\ pc[r] = "sendrecvDown"
    /\ pc' = [pc EXCEPT ![r] = "sendrecvDownWait"]
    /\ UNCHANGED <<config, omp, io, sand, next, y, x, chan,
                   local_changed, global_changed, changed, sweeps, contrib,
                   gatherMsg, gathervMsg, recvcounts, displs, final_data,
                   sendbuf>>

\* test.c 72-77, first half: the send of the last interior row is issued
SendrecvDownPost(r) ==
    /\ variant = "mpi"
    /\ pc[r] = "sendrecvDown"
    /\ chan' = [chan EXCEPT
                  ![r][r + 1] = Append(@, RowAt(sand[r], LastInteriorRow(r)))]
    /\ pc' = [pc EXCEPT ![r] = "sendrecvDownWait"]
    /\ UNCHANGED <<config, omp, io, sand, next, y, x,
                   local_changed, global_changed, changed, sweeps, contrib,
                   gatherMsg, gathervMsg, recvcounts, displs, final_data,
                   sendbuf>>

\* test.c 72-77, second half: the row of rank+1 arrives in the bottom halo row
SendrecvDownDone(r) ==
    /\ variant = "mpi"
    /\ pc[r] = "sendrecvDownWait"
    /\ chan[r + 1][r] # <<>>
    /\ sand' = [sand EXCEPT
                  ![r] = PutRow(@, BottomHaloRow(r), Head(chan[r + 1][r]))]
    /\ chan' = [chan EXCEPT ![r + 1][r] = Tail(@)]
    /\ pc' = [pc EXCEPT ![r] = "compute"]
    /\ UNCHANGED <<config, omp, io, next, y, x, local_changed,
                   global_changed, changed, sweeps, contrib, gatherMsg,
                   gathervMsg, recvcounts, displs, final_data, sendbuf>>

\* mutant of BeginCompute: local_changed is declared outside the while loop
\* and not reset
BeginCompute_KeepsFlag(r) ==
    /\ variant = "mpi"
    /\ pc[r] = "compute"
    /\ y' = [y EXCEPT ![r] = 1]
    /\ x' = [x EXCEPT ![r] = 1]
    /\ pc' = [pc EXCEPT ![r] = "cell"]
    /\ UNCHANGED <<config, omp, io, sand, next, local_changed, global_changed,
                   changed, sweeps, chan, contrib, gatherMsg, gathervMsg,
                   recvcounts, displs, final_data, sendbuf>>

\* test.c 79-82: local_changed = false and the loop indices start at (1, 1)
BeginCompute(r) ==
    /\ variant = "mpi"
    /\ pc[r] = "compute"
    /\ local_changed' = [local_changed EXCEPT ![r] = FALSE]
    /\ y' = [y EXCEPT ![r] = 1]
    /\ x' = [x EXCEPT ![r] = 1]
    /\ pc' = [pc EXCEPT ![r] = "cell"]
    /\ UNCHANGED <<config, omp, io, sand, next, global_changed,
                   changed, sweeps, chan, contrib, gatherMsg, gathervMsg,
                   recvcounts, displs, final_data, sendbuf>>

\* test.c 80-86: one iteration of the inner loop
ComputeCell(r) ==
    /\ variant = "mpi"
    /\ pc[r] = "cell"
    /\ y[r] <= LocalHeight(r)
    /\ LET res == sync_compute_new_state(sand[r], next[r], Cols, y[r], x[r])
       IN /\ next' = [next EXCEPT ![r] = res.next]
          /\ local_changed' = [local_changed EXCEPT ![r] = OrAssign(@, res.ret)]
    /\ IF x[r] < width
       THEN /\ x' = [x EXCEPT ![r] = @ + 1]
            /\ y' = y
       ELSE /\ x' = [x EXCEPT ![r] = 1]
            /\ y' = [y EXCEPT ![r] = @ + 1]
    /\ UNCHANGED <<config, omp, io, pc, sand, global_changed,
                   changed, sweeps, chan, contrib, gatherMsg, gathervMsg,
                   recvcounts, displs, final_data, sendbuf>>

\* test.c 88-93, first half: swap the buffers, hand local_changed to the
\* reduction
SwapAllreduce(r) ==
    /\ variant = "mpi"
    /\ pc[r] = "cell"
    /\ y[r] > LocalHeight(r)
    /\ sweeps[r] < MaxSweeps
    /\ sand' = [sand EXCEPT ![r] = next[r]]
    /\ next' = [next EXCEPT ![r] = sand[r]]
    /\ sweeps' = [sweeps EXCEPT ![r] = @ + 1]
    /\ contrib' = [contrib EXCEPT ![r] = Append(@, local_changed[r])]
    /\ pc' = [pc EXCEPT ![r] = "allreduceWait"]
    /\ UNCHANGED <<config, omp, io, y, x, local_changed,
                   global_changed, changed, chan, gatherMsg, gathervMsg,
                   recvcounts, displs, final_data, sendbuf>>

\* mutant of MPI_LOR: the reduction is MPI_LAND
MPI_LOR_LAND(vals, n) == \A q \in DOMAIN vals : vals[q][n]

\* test.c 93: MPI_LOR over the values every rank gave to call number n
MPI_LOR(vals, n) == \E q \in DOMAIN vals : vals[q][n]

\* mutant of AllreduceDone: no reduction, the loop tests the rank's own flag
AllreduceDone_LocalOnly(r) ==
    /\ variant = "mpi"
    /\ pc[r] = "allreduceWait"
    /\ global_changed' = [global_changed EXCEPT ![r] = local_changed[r]]
    /\ pc' = [pc EXCEPT ![r] = IF local_changed[r] THEN LoopBody(r) ELSE "gather"]
    /\ UNCHANGED <<config, omp, io, sand, next, y, x,
                   local_changed, changed, sweeps, chan, contrib, gatherMsg,
                   gathervMsg, recvcounts, displs, final_data, sendbuf>>

\* test.c 93 and 58: the reduction returns the OR of every rank's value of
\* this call, then the loop condition is tested
AllreduceDone(r) ==
    /\ variant = "mpi"
    /\ pc[r] = "allreduceWait"
    /\ \A q \in Ranks : Len(contrib[q]) >= Len(contrib[r])
    /\ LET res == MPI_LOR(contrib, Len(contrib[r]))
       IN /\ global_changed' = [global_changed EXCEPT ![r] = res]
          /\ pc' = [pc EXCEPT ![r] = IF res THEN LoopBody(r) ELSE "gather"]
    /\ UNCHANGED <<config, omp, io, sand, next, y, x,
                   local_changed, changed, sweeps, chan, contrib, gatherMsg,
                   gathervMsg, recvcounts, displs, final_data, sendbuf>>

\* test.c 102-113, first half: every rank hands local_pixels to MPI_Gather;
\* only the root waits for the others
GatherPost(r) ==
    /\ variant = "mpi"
    /\ pc[r] = "gather"
    /\ gatherMsg' = [gatherMsg EXCEPT ![r] = <<LocalPixels(r)>>]
    /\ pc' = [pc EXCEPT ![r] = IF r = 0 THEN "gatherRoot" ELSE "pack"]
    /\ UNCHANGED <<config, omp, io, sand, next, y, x,
                   local_changed, global_changed, changed, sweeps, chan,
                   contrib, gathervMsg, recvcounts, displs, final_data,
                   sendbuf>>

\* mutant of TotalPixels: the size of final_data is taken from the last
\* rank's count, as if every rank owned as many rows
TotalPixels_LastCountForAll(rc, i) == rc[i] * (i + 1)

\* test.c 117-121: total_pixels accumulated over recvcounts[0 .. i]
RECURSIVE TotalPixels(_, _)
TotalPixels(rc, i) == IF i < 0 THEN 0 ELSE TotalPixels(rc, i - 1) + rc[i]

\* mutant of DisplAt: displs[i] = displs[i-1] + recvcounts[i]
RECURSIVE DisplAt_OwnCount(_, _)
DisplAt_OwnCount(rc, i) ==
    IF i = 0 THEN 0 ELSE DisplAt_OwnCount(rc, i - 1) + rc[i]

\* test.c 118-124: displs[0] = 0, displs[i] = displs[i-1] + recvcounts[i-1]
RECURSIVE DisplAt(_, _)
DisplAt(rc, i) == IF i = 0 THEN 0 ELSE DisplAt(rc, i - 1) + rc[i - 1]

\* test.c 113-126 on rank 0: recvcounts is filled, displs and total_pixels
\* are computed, final_data is malloc'ed (contents indeterminate)
GatherRoot(r) ==
    /\ variant = "mpi"
    /\ r = 0
    /\ pc[r] = "gatherRoot"
    /\ \A q \in Ranks : gatherMsg[q] # <<>>
    /\ LET rc == [i \in Ranks |-> gatherMsg[i][1]]
           total == TotalPixels(rc, size - 1)
       IN /\ recvcounts' = rc
          /\ displs' = [i \in Ranks |-> DisplAt(rc, i)]
          /\ final_data' = [final_data EXCEPT
                 ![r] = [null |-> FALSE, data |-> [i \in 0 .. total - 1 |-> UNINIT]]]
    /\ pc' = [pc EXCEPT ![r] = "pack"]
    /\ UNCHANGED <<config, omp, io, sand, next, y, x,
                   local_changed, global_changed, changed, sweeps, chan,
                   contrib, gatherMsg, gathervMsg, sendbuf>>

\* test.c 128-131: the interior cells of a buffer, row-major, without halo
\* rows and border columns
Flatten(buf, lh) ==
    [k \in 0 .. lh * width - 1 |->
        buf[((k \div width) + 1) * Cols + (k % width) + 1]]

\* mutant of GathervPost: the rows are packed into the front of sand itself
GathervPost_PacksInPlace(r) ==
    /\ variant = "mpi"
    /\ pc[r] = "pack"
    /\ sendbuf' = [sendbuf EXCEPT ![r] = Flatten(sand[r], LocalHeight(r))]
    /\ sand' = [sand EXCEPT
                  ![r] = [k \in DOMAIN sand[r] |->
                            IF k < LocalPixels(r)
                            THEN Flatten(sand[r], LocalHeight(r))[k]
                            ELSE sand[r][k]]]
    /\ gathervMsg' = [gathervMsg EXCEPT
                        ![r] = <<Flatten(sand[r], LocalHeight(r))>>]
    /\ pc' = [pc EXCEPT ![r] = IF r = 0 THEN "gathervRoot" ELSE "finalize"]
    /\ UNCHANGED <<config, omp, io, next, y, x,
                   local_changed, global_changed, changed, sweeps, chan,
                   contrib, gatherMsg, recvcounts, displs, final_data>>

\* test.c 128-134, first half: sendbuf is filled and handed to MPI_Gatherv
GathervPost(r) ==
    /\ variant = "mpi"
    /\ pc[r] = "pack"
    /\ sendbuf' = [sendbuf EXCEPT ![r] = Flatten(sand[r], LocalHeight(r))]
    /\ gathervMsg' = [gathervMsg EXCEPT
                        ![r] = <<Flatten(sand[r], LocalHeight(r))>>]
    /\ pc' = [pc EXCEPT ![r] = IF r = 0 THEN "gathervRoot" ELSE "finalize"]
    /\ UNCHANGED <<config, omp, io, sand, next, y, x,
                   local_changed, global_changed, changed, sweeps, chan,
                   contrib, gatherMsg, recvcounts, displs, final_data>>

\* MPI_Gatherv on the root: the block of rank i is stored at
\* data[displs[i] .. displs[i] + recvcounts[i] - 1], ranks 0 .. i in turn
RECURSIVE PlaceBlocks(_, _, _, _, _)
PlaceBlocks(data, msgs, rc, dp, i) ==
    IF i < 0 THEN data
    ELSE LET before == PlaceBlocks(data, msgs, rc, dp, i - 1)
         IN [j \in DOMAIN before |->
                IF j >= dp[i] /\ j < dp[i] + rc[i]
                THEN msgs[i][1][j - dp[i]] ELSE before[j]]

\* test.c 133-134 on rank 0: every block has arrived in final_data
GathervRoot(r) ==
    /\ variant = "mpi"
    /\ r = 0
    /\ pc[r] = "gathervRoot"
    /\ \A q \in Ranks : gathervMsg[q] # <<>>
    /\ final_data' = [final_data EXCEPT
           ![r].data = PlaceBlocks(@, gathervMsg, recvcounts, displs, size - 1)]
    /\ pc' = [pc EXCEPT ![r] = "fopen"]
    /\ UNCHANGED <<config, omp, io, sand, next, y, x,
                   local_changed, global_changed, changed, sweeps, chan,
                   contrib, gatherMsg, gathervMsg, recvcounts, displs,
                   sendbuf>>

\* ---- output stage -----------------------------------------------------------
\* test.c 143-167: the switch that maps a cell value to (r, g, b)
Colour(v) ==
    CASE v = 0 -> <<0, 0, 0>>
      [] v = 1 -> <<0, 255, 0>>
      [] v = 2 -> <<0, 0, 255>>
      [] v = 3 -> <<255, 0, 0>>
      [] OTHER -> <<0, 0, 0>>

\* test.c 144: the read of final_data[i]; outside the malloc'ed block the
\* value read is indeterminate
PixelAt(data, i) == IF i \in DOMAIN data THEN Colour(data[i]) ELSE <<UNINIT>>

\* test.c 139-171: the header and one (r, g, b) per cell index
\* 0 .. global_height * width - 1
ImageOf(data) ==
    <<<<"P6", width, height, 255>>>>
       \o [i \in 1 .. height * width |-> PixelAt(data, i - 1)]

\* test.c 136-138: rank 0 opens sandpile.ppm and gets a stream
Fopen(r) ==
    /\ variant = "mpi"
    /\ r = 0
    /\ pc[r] = "fopen"
    /\ fp' = [fp EXCEPT ![r] = "open"]
    /\ pc' = [pc EXCEPT ![r] = "fprintf"]
    /\ UNCHANGED <<config, omp, out, stderr, exit_status, aborting, sand, next, y,
                   x, local_changed, global_changed, changed, sweeps, chan,
                   contrib, gatherMsg, gathervMsg, recvcounts, displs,
                   final_data, sendbuf>>

\* test.c 139-171: the header and the pixels go through the open stream
WriteImage(r) ==
    /\ variant = "mpi"
    /\ pc[r] = "fprintf"
    /\ fp[r] = "open"
    /\ out' = [out EXCEPT ![r] = ImageOf(final_data[r].data)]
    /\ pc' = [pc EXCEPT ![r] = "fclose"]
    /\ UNCHANGED <<config, omp, fp, stderr, exit_status, aborting, sand, next, y,
                   x, local_changed, global_changed, changed, sweeps, chan,
                   contrib, gatherMsg, gathervMsg, recvcounts, displs,
                   final_data, sendbuf>>

\* test.c 172-174: fclose, then the two messages on stderr
Fclose(r) ==
    /\ variant = "mpi"
    /\ pc[r] = "fclose"
    /\ fp' = [fp EXCEPT ![r] = "closed"]
    /\ stderr' = [stderr EXCEPT ![r] = @ \o <<"Wrote sandpile.ppm", "Max runtime">>]
    /\ pc' = [pc EXCEPT ![r] = "finalize"]
    /\ UNCHANGED <<config, omp, out, exit_status, aborting, sand, next, y,
                   x, local_changed, global_changed, changed, sweeps, chan,
                   contrib, gatherMsg, gathervMsg, recvcounts, displs,
                   final_data, sendbuf>>

\* test.c 177-188: the buffers are freed, MPI_Finalize, return EXIT_SUCCESS
Finalize(r) ==
    /\ variant = "mpi"
    /\ pc[r] = "finalize"
    /\ pc' = [pc EXCEPT ![r] = "done"]
    /\ exit_status' = [exit_status EXCEPT ![r] = "EXIT_SUCCESS"]
    /\ UNCHANGED <<config, omp, fp, out, stderr, aborting, sand, next, y, x,
                   local_changed, global_changed, changed, sweeps, chan,
                   contrib, gatherMsg, gathervMsg, recvcounts, displs,
                   final_data, sendbuf>>

\* ---- serial variant (sandpile_serial.c) -------------------------------------
\* 60-78 and 90: malloc and zero both grids, seed the interior, changed = true
SerialInitialize ==
    /\ variant = "serial"
    /\ pc[0] = "start"
    /\ sand' = [sand EXCEPT
                  ![0] = SeedInterior(ZeroArr((height + 2) * Cols), height, seed[0])]
    /\ next' = [next EXCEPT ![0] = ZeroArr((height + 2) * Cols)]
    /\ changed' = [changed EXCEPT ![0] = TRUE]
    /\ pc' = [pc EXCEPT ![0] = "loop"]
    /\ UNCHANGED <<config, omp, io, y, x, local_changed,
                   global_changed, sweeps, chan, contrib, gatherMsg,
                   gathervMsg, recvcounts, displs, final_data, sendbuf>>

\* 91-94: while (changed) { changed = false; y = 1; x = 1
SerialLoopTest ==
    /\ variant = "serial"
    /\ pc[0] = "loop"
    /\ IF changed[0]
       THEN /\ changed' = [changed EXCEPT ![0] = FALSE]
            /\ y' = [y EXCEPT ![0] = 1]
            /\ x' = [x EXCEPT ![0] = 1]
            /\ pc' = [pc EXCEPT ![0] = "cell"]
       ELSE /\ pc' = [pc EXCEPT ![0] = "write"]
            /\ UNCHANGED <<changed, y, x>>
    /\ UNCHANGED <<config, omp, io, sand, next, local_changed,
                   global_changed, sweeps, chan, contrib, gatherMsg,
                   gathervMsg, recvcounts, displs, final_data, sendbuf>>

\* 93-98: one iteration of the inner loop
SerialComputeCell ==
    /\ variant = "serial"
    /\ pc[0] = "cell"
    /\ y[0] <= height
    /\ LET res == sync_compute_new_state(sand[0], next[0], Cols, y[0], x[0])
       IN /\ next' = [next EXCEPT ![0] = res.next]
          /\ changed' = [changed EXCEPT ![0] = OrAssign(@, res.ret)]
    /\ IF x[0] < width
       THEN /\ x' = [x EXCEPT ![0] = @ + 1]
            /\ y' = y
       ELSE /\ x' = [x EXCEPT ![0] = 1]
            /\ y' = [y EXCEPT ![0] = @ + 1]
    /\ UNCHANGED <<config, omp, io, pc, sand, local_changed,
                   global_changed, sweeps, chan, contrib, gatherMsg,
                   gathervMsg, recvcounts, displs, final_data, sendbuf>>

\* 99-103: swap the buffers, back to the loop test
SerialSwap ==
    /\ variant = "serial"
    /\ pc[0] = "cell"
    /\ y[0] > height
    /\ sweeps[0] < MaxSweeps
    /\ sand' = [sand EXCEPT ![0] = next[0]]
    /\ next' = [next EXCEPT ![0] = sand[0]]
    /\ sweeps' = [sweeps EXCEPT ![0] = @ + 1]
    /\ pc' = [pc EXCEPT ![0] = "loop"]
    /\ UNCHANGED <<config, omp, io, y, x, local_changed,
                   global_changed, changed, chan, contrib, gatherMsg,
                   gathervMsg, recvcounts, displs, final_data, sendbuf>>

\* 117-136: the header and one (r, g, b) per interior cell of a full grid,
\* row-major
GridImage(buf) == ImageOf(Flatten(buf, height))

\* 111-115: fopen returns a stream
SerialFopen ==
    /\ variant = "serial"
    /\ pc[0] = "write"
    /\ fp' = [fp EXCEPT ![0] = "open"]
    /\ pc' = [pc EXCEPT ![0] = "fprintf"]
    /\ UNCHANGED <<config, omp, out, stderr, exit_status, aborting, sand, next, y,
                   x, local_changed, global_changed, changed, sweeps, chan,
                   contrib, gatherMsg, gathervMsg, recvcounts, displs,
                   final_data, sendbuf>>

\* 117-136: the header and the pixels of the interior of sand
SerialWriteImage ==
    /\ variant = "serial"
    /\ pc[0] = "fprintf"
    /\ out' = [out EXCEPT ![0] = GridImage(sand[0])]
    /\ pc' = [pc EXCEPT ![0] = "fclose"]
    /\ UNCHANGED <<config, omp, fp, stderr, exit_status, aborting, sand, next, y,
                   x, local_changed, global_changed, changed, sweeps, chan,
                   contrib, gatherMsg, gathervMsg, recvcounts, displs,
                   final_data, sendbuf>>

\* 137-143: fclose, the message on stderr, free both grids, return
\* EXIT_SUCCESS
SerialFinish ==
    /\ variant = "serial"
    /\ pc[0] = "fclose"
    /\ fp' = [fp EXCEPT ![0] = "closed"]
    /\ stderr' = [stderr EXCEPT ![0] = Append(@, "Wrote sandpile.ppm")]
    /\ exit_status' = [exit_status EXCEPT ![0] = "EXIT_SUCCESS"]
    /\ pc' = [pc EXCEPT ![0] = "done"]
    /\ UNCHANGED <<config, omp, out, aborting, sand, next, y, x,
                   local_changed, global_changed, changed, sweeps, chan,
                   contrib, gatherMsg, gathervMsg, recvcounts, displs,
                   final_data, sendbuf>>

\* ---- the serial relaxation as a function of the seeded grid ----------------
\* 93-98: the inner loops over lh rows, from cell number k on (cells numbered
\* row-major)
RECURSIVE SweepFrom(_, _, _, _, _)
SweepFrom(s, n, ch, k, lh) ==
    IF k >= lh * width THEN [next |-> n, changed |-> ch]
    ELSE LET res == sync_compute_new_state(s, n, Cols, (k \div width) + 1,
                                           (k % width) + 1)
         IN SweepFrom(s, res.next, OrAssign(ch, res.ret), k + 1, lh)

\* 93-98 with the cells visited in another order: order is a sequence of cell
\* numbers, 1-based, row-major
RECURSIVE SweepInOrder(_, _, _, _)
SweepInOrder(s, n, ch, order) ==
    IF order = <<>> THEN [next |-> n, changed |-> ch]
    ELSE LET k == Head(order) - 1
             res == sync_compute_new_state(s, n, Cols, (k \div width) + 1,
                                           (k % width) + 1)
         IN SweepInOrder(s, res.next, OrAssign(ch, res.ret), Tail(order))

\* 91-103: the while loop; fuel caps the number of sweeps
RECURSIVE RelaxLoop(_, _, _, _)
RelaxLoop(s, n, count, fuel) ==
    IF fuel = 0 THEN [sand |-> s, next |-> n, sweeps |-> count]
    ELSE LET sw == SweepFrom(s, n, FALSE, 0, height)
         IN IF sw.changed
            THEN RelaxLoop(sw.next, s, count + 1, fuel - 1)
            ELSE [sand |-> sw.next, next |-> s, sweeps |-> count + 1]

\* 60-103: the grids and the sweep count the serial program ends with
SerialRun ==
    RelaxLoop(SeedInterior(ZeroArr((height + 2) * Cols), height,
                           [k \in 0 .. height * width - 1 |-> SEED]),
              ZeroArr((height + 2) * Cols), 0, MaxSweeps)

\* 60-103: the grids and the flag after k iterations of the while loop, or
\* those the loop ends with when it ends in fewer iterations
RECURSIVE SerialAfter(_)
SerialAfter(k) ==
    IF k = 0
    THEN [sand |-> SeedInterior(ZeroArr((height + 2) * Cols), height,
                                [c \in 0 .. height * width - 1 |-> SEED]),
          next |-> ZeroArr((height + 2) * Cols), changed |-> TRUE]
    ELSE LET p == SerialAfter(k - 1)
         IN IF ~p.changed THEN p
            ELSE LET sw == SweepFrom(p.sand, p.next, FALSE, 0, height)
                 IN [sand |-> sw.next, next |-> p.sand, changed |-> sw.changed]

\* one step of an MPI process
RankNext(r) ==
    \/ Initialize(r)
    \/ SendrecvUpPost(r)
    \/ SendrecvUpDone(r)
    \/ SendrecvDownPost(r)
    \/ SendrecvDownDone(r)
    \/ BeginCompute(r)
    \/ ComputeCell(r)
    \/ SwapAllreduce(r)
    \/ AllreduceDone(r)
    \/ GatherPost(r)
    \/ GatherRoot(r)
    \/ GathervPost(r)
    \/ GathervRoot(r)
    \/ Fopen(r)
    \/ WriteImage(r)
    \/ Fclose(r)
    \/ Finalize(r)

\* one step of the serial program
SerialNext ==
    \/ SerialInitialize
    \/ SerialLoopTest
    \/ SerialComputeCell
    \/ SerialSwap
    \/ SerialFopen
    \/ SerialWriteImage
    \/ SerialFinish

Next ==
    \/ \E r \in Ranks : Initialize(r)
    \/ \E r \in Ranks : SendrecvUpPost(r)
    \/ \E r \in Ranks : SendrecvUpDone(r)
    \/ \E r \in Ranks : SendrecvDownPost(r)
    \/ \E r \in Ranks : SendrecvDownDone(r)
    \/ \E r \in Ranks : BeginCompute(r)
    \/ \E r \in Ranks : ComputeCell(r)
    \/ \E r \in Ranks : SwapAllreduce(r)
    \/ \E r \in Ranks : AllreduceDone(r)
    \/ \E r \in Ranks : GatherPost(r)
    \/ \E r \in Ranks : GatherRoot(r)
    \/ \E r \in Ranks : GathervPost(r)
    \/ \E r \in Ranks : GathervRoot(r)
    \/ \E r \in Ranks : Fopen(r)
    \/ \E r \in Ranks : WriteImage(r)
    \/ \E r \in Ranks : Fclose(r)
    \/ \E r \in Ranks : Finalize(r)
    \/ SerialInitialize
    \/ SerialLoopTest
    \/ SerialComputeCell
    \/ SerialSwap
    \/ SerialFopen
    \/ SerialWriteImage
    \/ SerialFinish

Spec == Init /\ [][Next]_vars

\* every process keeps running while it is not blocked in a receive or a
\* collective: weak fairness of each process's next step
Fairness ==
    /\ \A r \in 0 .. MaxSize - 1 : WF_vars(r \in Ranks /\ RankNext(r))
    /\ WF_vars(SerialNext)

LiveSpec == InitAnySeed /\ [][Next]_vars /\ Fairness

\* the runs of Spec in which no process that can step is left waiting for ever
FairSpec == Init /\ [][Next]_vars /\ Fairness

\* ---- the replicated variant (sandpile_mpi.c) --------------------------------
\* every process relaxes the whole grid in its own buffers and writes the
\* image; the processes exchange nothing
\* sandpile_mpi.c 62-90: malloc and zero both grids, seed the interior,
\* changed = true
RepInitialize(r) ==
    /\ variant = "replicated"
    /\ pc[r] = "start"
    /\ sand' = [sand EXCEPT
                  ![r] = SeedInterior(ZeroArr((height + 2) * Cols), height, seed[r])]
    /\ next' = [next EXCEPT ![r] = ZeroArr((height + 2) * Cols)]
    /\ changed' = [changed EXCEPT ![r] = TRUE]
    /\ pc' = [pc EXCEPT ![r] = "loop"]
    /\ UNCHANGED <<config, omp, io, y, x, local_changed, global_changed, sweeps,
                   chan, contrib, gatherMsg, gathervMsg, recvcounts, displs,
                   final_data, sendbuf>>

\* sandpile_mpi.c 91-105: one iteration of the while loop: changed = false,
\* every interior cell updated, the buffers swapped
RepSweep(r) ==
    /\ variant = "replicated"
    /\ pc[r] = "loop"
    /\ changed[r]
    /\ sweeps[r] < MaxSweeps
    /\ LET sw == SweepFrom(sand[r], next[r], FALSE, 0, height)
       IN /\ sand' = [sand EXCEPT ![r] = sw.next]
          /\ next' = [next EXCEPT ![r] = sand[r]]
          /\ changed' = [changed EXCEPT ![r] = sw.changed]
    /\ sweeps' = [sweeps EXCEPT ![r] = @ + 1]
    /\ UNCHANGED <<config, omp, io, pc, y, x, local_changed, global_changed, chan,
                   contrib, gatherMsg, gathervMsg, recvcounts, displs,
                   final_data, sendbuf>>

\* sandpile_mpi.c 91 and 107: the loop is left, MPI_Finalize returns
RepFinalize(r) ==
    /\ variant = "replicated"
    /\ pc[r] = "loop"
    /\ ~changed[r]
    /\ pc' = [pc EXCEPT ![r] = "fopen"]
    /\ UNCHANGED <<config, omp, io, sand, next, y, x,
                   local_changed, global_changed, changed, sweeps, chan,
                   contrib, gatherMsg, gathervMsg, recvcounts, displs,
                   final_data, sendbuf>>

\* sandpile_mpi.c 110-115: fopen returns a stream
RepFopen(r) ==
    /\ variant = "replicated"
    /\ pc[r] = "fopen"
    /\ fp' = [fp EXCEPT ![r] = "open"]
    /\ pc' = [pc EXCEPT ![r] = "fprintf"]
    /\ UNCHANGED <<config, omp, out, stderr, exit_status, aborting, sand, next, y, x,
                   local_changed, global_changed, changed, sweeps, chan,
                   contrib, gatherMsg, gathervMsg, recvcounts, displs,
                   final_data, sendbuf>>

\* sandpile_mpi.c 116-154: the header and the pixels of the interior of sand
RepWriteImage(r) ==
    /\ variant = "replicated"
    /\ pc[r] = "fprintf"
    /\ out' = [out EXCEPT ![r] = GridImage(sand[r])]
    /\ pc' = [pc EXCEPT ![r] = "fclose"]
    /\ UNCHANGED <<config, omp, fp, stderr, exit_status, aborting, sand, next, y, x,
                   local_changed, global_changed, changed, sweeps, chan,
                   contrib, gatherMsg, gathervMsg, recvcounts, displs,
                   final_data, sendbuf>>

\* sandpile_mpi.c 155-160: fclose, the message on stderr, free, return
\* EXIT_SUCCESS
RepFinish(r) ==
    /\ variant = "replicated"
    /\ pc[r] = "fclose"
    /\ fp' = [fp EXCEPT ![r] = "closed"]
    /\ stderr' = [stderr EXCEPT ![r] = Append(@, "Wrote sandpile.ppm")]
    /\ exit_status' = [exit_status EXCEPT ![r] = "EXIT_SUCCESS"]
    /\ pc' = [pc EXCEPT ![r] = "done"]
    /\ UNCHANGED <<config, omp, out, aborting, sand, next, y, x,
                   local_changed, global_changed, changed, sweeps, chan,
                   contrib, gatherMsg, gathervMsg, recvcounts, displs,
                   final_data, sendbuf>>

\* ---- what the environment can refuse ------------------------------------------
\* test.c 41-48: calloc returns NULL for sand or next: perror, then MPI_Abort
\* on MPI_COMM_WORLD, which does not return
AllocFail(r) ==
    /\ variant = "mpi"
    /\ pc[r] = "start"
    /\ stderr' = [stderr EXCEPT ![r] = Append(@, "malloc")]
    /\ aborting' = TRUE
    /\ exit_status' = [exit_status EXCEPT ![r] = "EXIT_FAILURE"]
    /\ pc' = [pc EXCEPT ![r] = "aborted"]
    /\ UNCHANGED <<config, omp, fp, out, sand, next, y, x,
                   local_changed, global_changed, changed, sweeps, chan,
                   contrib, gatherMsg, gathervMsg, recvcounts, displs,
                   final_data, sendbuf>>

\* test.c 47: MPI_Abort ends another process of the communicator, wherever it
\* is
Killed(r) ==
    /\ variant = "mpi"
    /\ aborting
    /\ exit_status[r] = "running"
    /\ exit_status' = [exit_status EXCEPT ![r] = "aborted"]
    /\ pc' = [pc EXCEPT ![r] = "aborted"]
    /\ UNCHANGED <<config, omp, fp, out, stderr, aborting, sand, next, y, x,
                   local_changed, global_changed, changed, sweeps, chan,
                   contrib, gatherMsg, gathervMsg, recvcounts, displs,
                   final_data, sendbuf>>

\* test.c 138: fopen returns NULL; nothing tests fp
FopenFails(r) ==
    /\ variant = "mpi"
    /\ r = 0
    /\ pc[r] = "fopen"
    /\ fp' = [fp EXCEPT ![r] = "null"]
    /\ pc' = [pc EXCEPT ![r] = "fprintf"]
    /\ UNCHANGED <<config, omp, out, stderr, exit_status, aborting, sand, next, y, x,
                   local_changed, global_changed, changed, sweeps, chan,
                   contrib, gatherMsg, gathervMsg, recvcounts, displs,
                   final_data, sendbuf>>

\* test.c 139-174 with fp = NULL: fprintf, fputc and fclose on a null stream
\* are undefined; the process is killed by a signal in the first call, or
\* every call returns an error and the process goes on to print its messages
FprintfNull(r) ==
    /\ variant = "mpi"
    /\ pc[r] = "fprintf"
    /\ fp[r] = "null"
    /\ \/ /\ pc' = [pc EXCEPT ![r] = "killed"]
          /\ exit_status' = [exit_status EXCEPT ![r] = "SIGSEGV"]
          /\ stderr' = stderr
       \/ /\ pc' = [pc EXCEPT ![r] = "finalize"]
          /\ stderr' = [stderr EXCEPT
                          ![r] = @ \o <<"Wrote sandpile.ppm", "Max runtime">>]
          /\ exit_status' = exit_status
    /\ UNCHANGED <<config, omp, fp, out, aborting, sand, next, y, x,
                   local_changed, global_changed, changed, sweeps, chan,
                   contrib, gatherMsg, gathervMsg, recvcounts, displs,
                   final_data, sendbuf>>

\* sandpile_serial.c 60-66: malloc returns NULL: perror, return EXIT_FAILURE
SerialAllocFail ==
    /\ variant = "serial"
    /\ pc[0] = "start"
    /\ stderr' = [stderr EXCEPT ![0] = Append(@, "malloc")]
    /\ exit_status' = [exit_status EXCEPT ![0] = "EXIT_FAILURE"]
    /\ pc' = [pc EXCEPT ![0] = "done"]
    /\ UNCHANGED <<config, omp, fp, out, aborting, sand, next, y, x,
                   local_changed, global_changed, changed, sweeps, chan,
                   contrib, gatherMsg, gathervMsg, recvcounts, displs,
                   final_data, sendbuf>>

\* sandpile_serial.c 111-115: fopen returns NULL: perror, return EXIT_FAILURE
SerialFopenFails ==
    /\ variant = "serial"
    /\ pc[0] = "write"
    /\ fp' = [fp EXCEPT ![0] = "null"]
    /\ stderr' = [stderr EXCEPT ![0] = Append(@, "fopen")]
    /\ exit_status' = [exit_status EXCEPT ![0] = "EXIT_FAILURE"]
    /\ pc' = [pc EXCEPT ![0] = "done"]
    /\ UNCHANGED <<config, omp, out, aborting, sand, next, y, x,
                   local_changed, global_changed, changed, sweeps, chan,
                   contrib, gatherMsg, gathervMsg, recvcounts, displs,
                   final_data, sendbuf>>

\* sandpile_mpi.c 62-68: malloc returns NULL: perror, return EXIT_FAILURE;
\* neither MPI_Abort nor MPI_Finalize is called
RepAllocFail(r) ==
    /\ variant = "replicated"
    /\ pc[r] = "start"
    /\ stderr' = [stderr EXCEPT ![r] = Append(@, "malloc")]
    /\ exit_status' = [exit_status EXCEPT ![r] = "EXIT_FAILURE"]
    /\ pc' = [pc EXCEPT ![r] = "done"]
    /\ UNCHANGED <<config, omp, fp, out, aborting, sand, next, y, x,
                   local_changed, global_changed, changed, sweeps, chan,
                   contrib, gatherMsg, gathervMsg, recvcounts, displs,
                   final_data, sendbuf>>

\* sandpile_mpi.c 110-115: fopen returns NULL: perror, return EXIT_FAILURE
RepFopenFails(r) ==
    /\ variant = "replicated"
    /\ pc[r] = "fopen"
    /\ fp' = [fp EXCEPT ![r] = "null"]
    /\ stderr' = [stderr EXCEPT ![r] = Append(@, "fopen")]
    /\ exit_status' = [exit_status EXCEPT ![r] = "EXIT_FAILURE"]
    /\ pc' = [pc EXCEPT ![r] = "done"]
    /\ UNCHANGED <<config, omp, out, aborting, sand, next, y, x,
                   local_changed, global_changed, changed, sweeps, chan,
                   contrib, gatherMsg, gathervMsg, recvcounts, displs,
                   final_data, sendbuf>>

\* the three programs, every process count, the program's seed; N is a macro
\* of the build and nothing in the programs rejects N = 0
EnvInit ==
    /\ variant \in {"serial", "mpi", "replicated"}
    /\ height \in 0 .. MaxHeight
    /\ width \in 1 .. MaxWidth
    /\ size \in (IF variant = "serial" THEN {1} ELSE 1 .. MaxSize)
    /\ seed = [r \in Ranks |->
                 [k \in 0 .. (IF variant = "replicated" THEN height * width
                              ELSE LocalPixels(r)) - 1 |-> SEED]]
    /\ InitRun

\* the steps of Next, the steps of sandpile_mpi.c and the refusals
EnvNext ==
    \/ Next
    \/ \E r \in Ranks : RepInitialize(r)
    \/ \E r \in Ranks : RepSweep(r)
    \/ \E r \in Ranks : RepFinalize(r)
    \/ \E r \in Ranks : RepFopen(r)
    \/ \E r \in Ranks : RepWriteImage(r)
    \/ \E r \in Ranks : RepFinish(r)
    \/ \E r \in Ranks : AllocFail(r)
    \/ \E r \in Ranks : Killed(r)
    \/ \E r \in Ranks : FopenFails(r)
    \/ \E r \in Ranks : FprintfNull(r)
    \/ SerialAllocFail
    \/ SerialFopenFails
    \/ \E r \in Ranks : RepAllocFail(r)
    \/ \E r \in Ranks : RepFopenFails(r)

EnvSpec == EnvInit /\ [][EnvNext]_vars

\* ---- the OpenMP variant (sandpile_OpenMP.c) -----------------------------------
\* one process, a team of nthreads threads; the team shares sand and next
\* the threads of the team
Threads == 0 .. team.nthreads - 1

\* 82: "parallel for collapse(2)": the height * width iterations of the
\* collapsed loop are divided among the threads of the team, each iteration
\* executed by one thread; which one is the schedule's choice
Schedules_WholeLoopPerThread(n, T) == {[c \in 0 .. n - 1 |-> 0 .. T - 1]}

Schedules(n, T) == [0 .. n - 1 -> {{t} : t \in 0 .. T - 1}]

\* 82: reduction(|:changed_int): the private copies start at 0 and are
\* combined with | into the shared changed_int (0 on entry, line 81)
ReducePriv_LastThread(shared, p) ==
    OrAssign(shared, p[CHOOSE t \in DOMAIN p : \A u \in DOMAIN p : u <= t])

ReducePriv(shared, p) == \E t \in DOMAIN p : OrAssign(shared, p[t])

\* 54-72 and 79: malloc both grids, zero them, seed the interior,
\* changed = true
OmpInitialize ==
    /\ variant = "omp"
    /\ pc[0] = "start"
    /\ sand' = [sand EXCEPT
                  ![0] = SeedInterior(ZeroArr((height + 2) * Cols), height, seed[0])]
    /\ next' = [next EXCEPT ![0] = ZeroArr((height + 2) * Cols)]
    /\ changed' = [changed EXCEPT ![0] = TRUE]
    /\ pc' = [pc EXCEPT ![0] = "loop"]
    /\ UNCHANGED <<config, omp, io, y, x, local_changed, global_changed, sweeps,
                   chan, contrib, gatherMsg, gathervMsg, recvcounts, displs,
                   final_data, sendbuf>>

\* 80-82: while (changed) { changed_int = 0; the parallel region starts: the
\* iterations are handed out and every thread gets a private flag of 0
OmpFork ==
    /\ variant = "omp"
    /\ pc[0] = "loop"
    /\ changed[0]
    /\ sweeps[0] < MaxSweeps
    /\ \E schedule \in Schedules(height * width, team.nthreads) :
          team' = [team EXCEPT
                     !.changed_int = FALSE,
                     !.assign = schedule,
                     !.wrote = [c \in 0 .. height * width - 1 |-> <<>>],
                     !.priv = [t \in Threads |-> FALSE]]
    /\ pc' = [pc EXCEPT ![0] = "parallel"]
    /\ UNCHANGED <<config, io, sand, next, y, x, local_changed,
                   global_changed, changed, sweeps, chan, contrib, gatherMsg,
                   gathervMsg, recvcounts, displs, final_data, sendbuf>>

\* 83-87: thread t executes one of its iterations: iteration c is the cell
\* (c / width + 1, c % width + 1)
OmpCell(t) ==
    /\ variant = "omp"
    /\ pc[0] = "parallel"
    /\ \E c \in DOMAIN team.assign :
          /\ t \in team.assign[c]
          /\ \A i \in 1 .. Len(team.wrote[c]) : team.wrote[c][i] # t
          /\ LET res == sync_compute_new_state(sand[0], next[0], Cols,
                                               (c \div width) + 1,
                                               (c % width) + 1)
             IN /\ next' = [next EXCEPT ![0] = res.next]
                /\ team' = [team EXCEPT
                              !.priv[t] = OrAssign(@, res.ret),
                              !.wrote[c] = Append(@, t)]
    /\ UNCHANGED <<config, io, pc, sand, y, x,
                   local_changed, global_changed, changed, sweeps, chan,
                   contrib, gatherMsg, gathervMsg, recvcounts, displs,
                   final_data, sendbuf>>

\* 88-94: the end of the parallel region, reached when every thread has run
\* its iterations: the private flags are reduced into changed_int,
\* changed = changed_int, the buffers are swapped
OmpJoin ==
    /\ variant = "omp"
    /\ pc[0] = "parallel"
    /\ \A c \in DOMAIN team.assign :
          \A t \in team.assign[c] :
             \E i \in 1 .. Len(team.wrote[c]) : team.wrote[c][i] = t
    /\ team' = [team EXCEPT
                  !.changed_int = ReducePriv(team.changed_int, team.priv)]
    /\ changed' = [changed EXCEPT ![0] = team'.changed_int]
    /\ sand' = [sand EXCEPT ![0] = next[0]]
    /\ next' = [next EXCEPT ![0] = sand[0]]
    /\ sweeps' = [sweeps EXCEPT ![0] = @ + 1]
    /\ pc' = [pc EXCEPT ![0] = "loop"]
    /\ UNCHANGED <<config, io, y, x,
                   local_changed, global_changed, chan, contrib, gatherMsg,
                   gathervMsg, recvcounts, displs, final_data, sendbuf>>

\* 80 and 103-130: the loop is left; fopen returns a stream, the header and
\* the pixels of the interior of sand are written, fclose, free, return 0
OmpWriteImage ==
    /\ variant = "omp"
    /\ pc[0] = "loop"
    /\ ~changed[0]
    /\ fp' = [fp EXCEPT ![0] = "closed"]
    /\ out' = [out EXCEPT ![0] = GridImage(sand[0])]
    /\ exit_status' = [exit_status EXCEPT ![0] = "EXIT_SUCCESS"]
    /\ pc' = [pc EXCEPT ![0] = "done"]
    /\ UNCHANGED <<config, omp, stderr, aborting, sand, next, y, x,
                   local_changed, global_changed, changed, sweeps, chan,
                   contrib, gatherMsg, gathervMsg, recvcounts, displs,
                   final_data, sendbuf>>

\* the three programs that relax one grid together or alone: the serial one,
\* test.c and sandpile_OpenMP.c, the latter with every team size and, sweep
\* by sweep, every schedule, on grids of at most OmpMaxCells cells
OmpInit ==
    /\ variant \in {"serial", "mpi", "omp"}
    /\ height \in 1 .. MaxHeight
    /\ width \in 1 .. MaxWidth
    /\ variant = "omp" => height * width <= OmpMaxCells
    /\ size \in (IF variant = "mpi" THEN 1 .. MaxSize ELSE {1})
    /\ seed = [r \in Ranks |-> [k \in 0 .. LocalPixels(r) - 1 |-> SEED]]
    /\ InitRun

OmpNext ==
    \/ Next
    \/ OmpInitialize
    \/ OmpFork
    \/ \E t \in Threads : OmpCell(t)
    \/ OmpJoin
    \/ OmpWriteImage

OmpSpec == OmpInit /\ [][OmpNext]_vars

\* ---- shared vocabulary of the properties ------------------------------------
\* the rank has left the relaxation loop
LoopExited(r) ==
    pc[r] \in (IF variant = "serial"
               THEN {"write", "fprintf", "fclose", "done"}
               ELSE {"gather", "gatherRoot", "pack", "gathervRoot", "fopen",
                     "fprintf", "fclose", "killed", "finalize", "done"})

\* rank 0 holds the assembled buffer
Assembled ==
    /\ variant = "mpi"
    /\ pc[0] \in {"fopen", "fprintf", "fclose", "killed", "finalize", "done"}

\* rows owned by a rank, read off the buffer it allocated
OwnedRows(r) == (Cardinality(DOMAIN sand[r]) \div (width + 2)) - 2

\* interior cell (row, col), 1-based, of a stored buffer
Cell(buf, row, col) == buf[row * (width + 2) + col]

RECURSIVE SumRows(_)
SumRows(n) == IF n < 0 THEN 0 ELSE SumRows(n - 1) + OwnedRows(n)

AllAllocated == \A r \in Ranks : pc[r] # "start"

\* ---- C1 ------------------------------------------------------------------------
\* C1: for the all-4 seed and every workerCount in 1..height, the buffer
\* assembled on rank 0, read row-major, equals cell for cell the interior of
\* the grid the serial relaxation loop ends with (and the serial program does
\* end with that grid).
C1_DecompositionInvariance ==
    /\ (variant = "mpi" /\ size <= height /\ Assembled) =>
          /\ DOMAIN final_data[0].data = 0 .. height * width - 1
          /\ \A row \in 1 .. height : \A col \in 1 .. width :
                final_data[0].data[(row - 1) * width + (col - 1)]
                   = Cell(SerialRun.sand, row, col)
    /\ (variant = "serial" /\ LoopExited(0)) =>
          \A row \in 1 .. height : \A col \in 1 .. width :
              Cell(sand[0], row, col) = Cell(SerialRun.sand, row, col)

\* a 3 x 3 grid relaxed by three one-row workers has been assembled
C1_Witness ==
    /\ variant = "mpi" /\ height = 3 /\ width = 3 /\ size = 3
    /\ Assembled
    /\ final_data[0].data[1] = 3

\* ---- C2 ------------------------------------------------------------------------
\* C2: the row counts of the ranks sum to height, the first (height mod
\* workerCount) ranks own exactly one row more than the others, which all own
\* floor(height / workerCount) rows, so that the ranges laid end to end in
\* rank order cover rows 0 .. height-1 without gap or overlap.
C2_PartitionCoverage ==
    (variant = "mpi" /\ AllAllocated) =>
        /\ SumRows(size - 1) = height
        /\ \A r \in Ranks :
              OwnedRows(r) = (height \div size)
                             + (IF r < height % size THEN 1 ELSE 0)
        /\ \A r \in Ranks :
              SumRows(r) - OwnedRows(r)
                 = r * (height \div size)
                   + (IF r < height % size THEN r ELSE height % size)

\* an uneven partition: 3 rows over 2 workers, all buffers allocated
C2_Witness ==
    /\ variant = "mpi" /\ height = 3 /\ size = 2
    /\ AllAllocated
    /\ OwnedRows(0) = 2 /\ OwnedRows(1) = 1

\* ---- C3 ------------------------------------------------------------------------
\* the last sweep of the rank changed no interior cell and the rank has left
\* the loop with its flag false
StableExit(r) ==
    /\ LoopExited(r)
    /\ sweeps[r] >= 1
    /\ \A row \in 1 .. OwnedRows(r) : \A col \in 1 .. width :
          Cell(sand[r], row, col) = Cell(next[r], row, col)
    /\ IF variant = "serial" THEN ~changed[r] ELSE ~global_changed[r]

\* C3: from the all-4 configuration and from every non-negative seed of a
\* bounded grid, the run eventually performs a sweep that changes no interior
\* cell and leaves the loop; in the distributed variant every worker does.
C3_Termination == <>(\A r \in Ranks : StableExit(r))

\* two workers have left the loop of a run that started from another seed
\* than the program's (9 grains in every cell of a 3 x 1 grid) and took four
\* sweeps
C3_Witness ==
    /\ variant = "mpi" /\ size = 2 /\ height = 3 /\ width = 1
    /\ \A r \in Ranks : StableExit(r) /\ sweeps[r] = 4
    /\ seed[0][0] = 9 /\ seed[0][1] = 9 /\ seed[1][0] = 9

\* ---- C4 ------------------------------------------------------------------------
AllExited == \A r \in Ranks : LoopExited(r)

\* C4: once a rank has left the loop every interior cell of its current buffer
\* is in 0..3, and so is every cell of the assembled buffer.
C4_StableRange ==
    /\ \A r \in Ranks :
          LoopExited(r) =>
              \A row \in 1 .. OwnedRows(r) : \A col \in 1 .. width :
                  Cell(sand[r], row, col) \in 0 .. 3
    /\ Assembled =>
          \A i \in DOMAIN final_data[0].data : final_data[0].data[i] \in 0 .. 3

\* the 3 x 3 grid has left the loop after five sweeps, its edge cells at 3
C4_Witness ==
    /\ height = 3 /\ width = 3 /\ size = 1
    /\ AllExited
    /\ sweeps[0] = 5
    /\ Cell(sand[0], 1, 2) = 3

\* ---- C5 ------------------------------------------------------------------------
\* the current buffer of a rank with both halo rows refreshed as one more
\* exchange would refresh them
Refreshed(r) ==
    LET top == IF r > 0
               THEN PutRow(sand[r], 0,
                           RowAt(sand[r - 1], OwnedRows(r - 1) * (width + 2)))
               ELSE sand[r]
    IN IF r < size - 1
       THEN PutRow(top, (OwnedRows(r) + 1) * (width + 2),
                   RowAt(sand[r + 1], width + 2))
       ELSE top

\* C5: when every rank has left the loop, one more sweep over the final grid
\* (halos refreshed) writes to every interior cell the value it already has and
\* reports changed = false.
C5_FixedPoint ==
    AllExited =>
        \A r \in Ranks :
            LET extra == SweepFrom(Refreshed(r), next[r], FALSE, 0, OwnedRows(r))
            IN /\ ~extra.changed
               /\ \A row \in 1 .. OwnedRows(r) : \A col \in 1 .. width :
                     Cell(extra.next, row, col) = Cell(sand[r], row, col)

\* three one-row workers have left the loop on the 3 x 3 grid; the middle
\* worker's halo rows hold cells at 3
C5_Witness ==
    /\ variant = "mpi" /\ height = 3 /\ width = 3 /\ size = 3
    /\ AllExited
    /\ Cell(Refreshed(1), 0, 2) = 3 /\ Cell(Refreshed(1), 2, 2) = 3

\* ---- C6 ------------------------------------------------------------------------
\* every sink cell of a stored buffer is 0
SinksZero(buf, r) ==
    LET cols == width + 2
        rows == Cardinality(DOMAIN buf) \div cols
    IN /\ \A k \in 0 .. rows - 1 :
             buf[k * cols] = 0 /\ buf[k * cols + width + 1] = 0
       /\ (variant = "serial" \/ r = 0) =>
             \A c \in 0 .. cols - 1 : buf[c] = 0
       /\ (variant = "serial" \/ r = size - 1) =>
             \A c \in 0 .. cols - 1 : buf[(rows - 1) * cols + c] = 0

CellStep(r) == pc[r] = "cell" /\ <<y'[r], x'[r]>> # <<y[r], x[r]>>

\* the flag the update's return value is or-ed into
Flag(r) == IF variant = "serial" THEN changed[r] ELSE local_changed[r]

\* C7: an update of the interior cell (y, x) with value v and non-negative
\* neighbours L, R, U, D writes v mod 4 + L/4 + R/4 + U/4 + D/4 (floors) to
\* the same cell of the next buffer, writes no other cell of any buffer, and
\* its return value, or-ed into the flag, is true exactly when the new value
\* differs from v.
C7_UpdateRule ==
    [][\A r \in Ranks :
          CellStep(r) =>
              LET cols == width + 2
                  idx == y[r] * cols + x[r]
                  v == sand[r][idx]
                  L == sand[r][idx - 1]
                  R == sand[r][idx + 1]
                  U == sand[r][idx - cols]
                  D == sand[r][idx + cols]
                  nv == (v % 4) + (L \div 4) + (R \div 4) + (U \div 4) + (D \div 4)
              IN /\ v >= 0 /\ L >= 0 /\ R >= 0 /\ U >= 0 /\ D >= 0
                 /\ next'[r][idx] = nv
                 /\ \A i \in DOMAIN next[r] \ {idx} : next'[r][i] = next[r][i]
                 /\ \A q \in Ranks \ {r} : next'[q] = next[q]
                 /\ sand' = sand
                 /\ Flag(r)' = (Flag(r) \/ (nv # v))]_vars

\* second sweep of the 3 x 3 grid: the centre cell, at 4 with all four
\* neighbours at 3, has been written as 0 and the flag is set
C7_Witness ==
    /\ height = 3 /\ width = 3 /\ size = 1
    /\ pc[0] = "cell" /\ y[0] = 2 /\ x[0] = 3
    /\ sweeps[0] = 1
    /\ Cell(sand[0], 2, 2) = 4 /\ Cell(sand[0], 1, 2) = 3
    /\ Cell(next[0], 2, 2) = 0
    /\ Flag(0)

\* ---- C8 ------------------------------------------------------------------------
\* the rank has finished a sweep and not yet started the next
AtSweepEnd(r) ==
    pc[r] = (IF variant = "serial" THEN "loop" ELSE "allreduceWait")

\* C8: height = 1, width = 1, seed 4: sweep 1 sets the cell to 0 with changed
\* true, sweep 2 leaves it 0 with changed false, and the loop is left after
\* exactly 2 sweeps with the cell at 0.
C8_ScenarioA ==
    (height = 1 /\ width = 1) =>
        /\ \A r \in Ranks :
              /\ sweeps[r] <= 2
              /\ LoopExited(r) => sweeps[r] = 2
              /\ (pc[r] # "start" /\ OwnedRows(r) = 1) =>
                    /\ sweeps[r] = 0 => Cell(sand[r], 1, 1) = 4
                    /\ sweeps[r] >= 1 => Cell(sand[r], 1, 1) = 0
                    /\ (sweeps[r] = 1 /\ AtSweepEnd(r)) => Flag(r)
                    /\ (sweeps[r] = 2 /\ AtSweepEnd(r)) => ~Flag(r)
        /\ Assembled => final_data[0].data = (0 :> 0)

\* the serial program has left the loop on the 1 x 1 grid
C8_Witness ==
    /\ variant = "serial" /\ height = 1 /\ width = 1
    /\ pc[0] = "write"
    /\ sweeps[0] = 2 /\ Cell(sand[0], 1, 1) = 0 /\ ~changed[0]

\* ---- C9 ------------------------------------------------------------------------
\* C9: height = 2, width = 1, seed 4: the run ends after exactly 2 sweeps with
\* result [1, 1], as one partition (serial, or one worker) and as two
\* one-row partitions that exchange halo rows.
C9_ScenarioB ==
    (height = 2 /\ width = 1 /\ size <= 2) =>
        /\ \A r \in Ranks :
              /\ sweeps[r] <= 2
              /\ LoopExited(r) =>
                    /\ sweeps[r] = 2
                    /\ \A row \in 1 .. OwnedRows(r) : Cell(sand[r], row, 1) = 1
        /\ Assembled => final_data[0].data = (0 :> 1 @@ 1 :> 1)

\* two one-row workers: the result [1, 1] is assembled on rank 0
C9_Witness ==
    /\ variant = "mpi" /\ height = 2 /\ width = 1 /\ size = 2
    /\ OwnedRows(0) = 1 /\ OwnedRows(1) = 1
    /\ pc[0] = "done" /\ pc[1] = "done"
    /\ final_data[0].data = (0 :> 1 @@ 1 :> 1)

\* ---- C10 -----------------------------------------------------------------------
\* C10: displs[0] = 0, displs[i] = displs[i-1] + recvcounts[i-1] with
\* recvcounts[i] = localHeight_i * width; the gathered buffer holds the
\* interior cells of rank i, row-major, at displs[i] .. displs[i] +
\* recvcounts[i] - 1, so the blocks are in rank order without overlap or gap;
\* final_data is non-null on rank 0 only.
C10_GatherLayout ==
    /\ \A r \in Ranks \ {0} : final_data[r].null
    /\ Assembled =>
          /\ ~final_data[0].null
          /\ displs[0] = 0
          /\ \A i \in 1 .. size - 1 : displs[i] = displs[i - 1] + recvcounts[i - 1]
          /\ \A i \in Ranks : recvcounts[i] = OwnedRows(i) * width
          /\ DOMAIN final_data[0].data
                = 0 .. displs[size - 1] + recvcounts[size - 1] - 1
          /\ \A i \in Ranks : \A k \in 0 .. recvcounts[i] - 1 :
                final_data[0].data[displs[i] + k]
                   = Cell(sand[i], (k \div width) + 1, (k % width) + 1)

\* 3 rows of 3 cells gathered from a 2-row and a 1-row worker
C10_Witness ==
    /\ variant = "mpi" /\ height = 3 /\ width = 3 /\ size = 2
    /\ Assembled
    /\ recvcounts = (0 :> 6 @@ 1 :> 3)
    /\ displs = (0 :> 0 @@ 1 :> 6)
    /\ final_data[0].data[7] = 3

\* ---- C11 -----------------------------------------------------------------------
\* the rank has allocated its buffers and owns no row
Idle(r) == variant = "mpi" /\ pc[r] # "start" /\ OwnedRows(r) = 0

\* the offsets in sand of the four rows the exchanges of a rank send from or
\* receive into
ExchangeRows(r) ==
    {TopHaloRow(r), FirstInteriorRow(r), LastInteriorRow(r), BottomHaloRow(r)}

\* what an idle rank does in every state: two stored rows per buffer, every
\* row it sends or receives inside them, no cell computed, false handed to
\* every reduction it has reached, zero cells handed to the gather
IdleSafe ==
    \A r \in Ranks :
        Idle(r) =>
            /\ Cardinality(DOMAIN sand[r]) = 2 * (width + 2)
            /\ Cardinality(DOMAIN next[r]) = 2 * (width + 2)
            /\ \A start \in ExchangeRows(r) :
                  \A i \in start .. start + width + 1 : i \in DOMAIN sand[r]
            /\ pc[r] = "cell" => y[r] > 0 /\ ~local_changed[r]
            /\ Len(contrib[r]) = sweeps[r]
            /\ \A n \in DOMAIN contrib[r] : ~contrib[r][n]
            /\ \A i \in DOMAIN next[r] : sand[r][i] = 0 \/ i < width + 2
            /\ pc[r] \in {"pack", "finalize", "done"} => gatherMsg[r] = <<0>>
            /\ pc[r] \in {"finalize", "done"} => gathervMsg[r] = << <<>> >>

\* C11: with workerCount > height every rank without rows keeps to its two
\* stored rows, hands false to each reduction and nothing to the gather, and
\* every rank, idle or not, gets through every exchange, reduction and gather
\* to the end of the program after the same number of sweeps.
C11_IdleWorkers ==
    /\ []IdleSafe
    /\ <>((variant = "mpi" /\ size > height) =>
             \A r \in Ranks : pc[r] = "done" /\ sweeps[r] = sweeps[0])

\* one row, three workers: both idle workers are through, each has handed
\* false to two reductions and an empty block to the gather
C11_Witness ==
    /\ variant = "mpi" /\ height = 1 /\ size = 3
    /\ \A r \in Ranks : pc[r] = "done"
    /\ Idle(1) /\ Idle(2)
    /\ contrib[1] = <<FALSE, FALSE>> /\ contrib[2] = <<FALSE, FALSE>>
    /\ contrib[0] = <<TRUE, FALSE>>
    /\ gatherMsg[2] = <<0>>

\* ---- C12 -----------------------------------------------------------------------
\* every cell of a row of cols ints is 0
ZeroRow(row) == \A i \in DOMAIN row : row[i] = 0

\* C12: with workerCount > height every row a rank without rows has sent to
\* its predecessor is all zeros, the last rank that owns a row (rank
\* height - 1) computes with an all-zero bottom halo row, and the assembled
\* buffer has exactly height * width cells, equal cell for cell to the grid
\* the serial relaxation loop ends with.
C12_IdleEquivalence ==
    (variant = "mpi" /\ size > height) =>
        /\ \A r \in Ranks \ {0} :
              Idle(r) =>
                  \A k \in DOMAIN chan[r][r - 1] : ZeroRow(chan[r][r - 1][k])
        /\ pc[height - 1] \in {"compute", "cell"} =>
              /\ OwnedRows(height - 1) = 1
              /\ ZeroRow(RowAt(sand[height - 1], 2 * (width + 2)))
        /\ Assembled =>
              /\ DOMAIN final_data[0].data = 0 .. height * width - 1
              /\ \A row \in 1 .. height : \A col \in 1 .. width :
                    final_data[0].data[(row - 1) * width + (col - 1)]
                       = Cell(SerialRun.sand, row, col)

\* two rows of three cells relaxed by three workers, the third without rows:
\* the result is assembled and the idle worker holds the last row of its
\* predecessor in its top halo row
C12_Witness ==
    /\ variant = "mpi" /\ height = 2 /\ width = 3 /\ size = 3
    /\ Assembled
    /\ Idle(2)
    /\ Cardinality(DOMAIN final_data[0].data) = 6
    /\ final_data[0].data[4] > 0
    /\ Cell(sand[2], 0, 2) > 0 \/ Cell(next[2], 0, 2) > 0

\* ---- C13 -----------------------------------------------------------------------
\* the allocation of a grid buffer has failed on the rank (perror("malloc"))
AllocFailed(r) == \E i \in DOMAIN stderr[r] : stderr[r][i] = "malloc"

\* C13: once the allocation of a grid buffer has failed on a worker, that
\* worker has written no grid cell and the run is over for every worker: none
\* writes the image or ends with EXIT_SUCCESS.
C13_AllocFailureAbortsRun ==
    (\E r \in Ranks : AllocFailed(r)) =>
        /\ \A r \in Ranks : AllocFailed(r) => sand[r] = <<>> /\ next[r] = <<>>
        /\ \A q \in Ranks :
              /\ exit_status[q] # "EXIT_SUCCESS"
              /\ out[q] = <<>>

\* ---- C14 -----------------------------------------------------------------------
\* a configuration the validation has to catch
Malformed == height <= 0 \/ width <= 0 \/ size > height

\* C14: in a malformed configuration (height <= 0, width <= 0 or workerCount
\* > height) the distributed run is stopped by the validation before
\* initialisation: no process ever allocates a buffer or seeds a cell.
C14_ValidatedBeforeInitializing ==
    (variant = "mpi" /\ Malformed) => \A r \in Ranks : sand[r] = <<>> /\ next[r] = <<>>

\* ---- C15 -----------------------------------------------------------------------
\* C15: on a grid with cells, a process whose fopen returned NULL makes no stdio call through the
\* null stream (it is not killed in one, and does not report the image as
\* written), ends with EXIT_FAILURE, and the assembled grid stays as it was
\* gathered.
C15_OpenFailureReported ==
    \A r \in Ranks :
        (height >= 1 /\ fp[r] = "null") =>
            /\ out[r] = <<>>
            /\ exit_status[r] \in {"running", "EXIT_FAILURE"}
            /\ pc[r] = "done" => exit_status[r] = "EXIT_FAILURE"
            /\ \A i \in DOMAIN stderr[r] : stderr[r][i] # "Wrote sandpile.ppm"
            /\ variant = "mpi" =>
                  final_data[r].data
                     = PlaceBlocks(final_data[r].data, gathervMsg, recvcounts,
                                   displs, size - 1)

\* ---- C16 -----------------------------------------------------------------------
\* the rank is in the compute phase of a sweep
Computing(r) == variant = "mpi" /\ pc[r] \in {"compute", "cell"}

\* the buffer that holds the grid of rank q after k completed sweeps, for a
\* rank that has completed k or k + 1 sweeps: its current buffer, or the other
\* one when it has swapped once more
BufferAfter(q, k) == IF sweeps[q] = k THEN sand[q] ELSE next[q]

\* C16: while rank r is in the compute phase of a sweep, having completed k
\* sweeps, each neighbour has completed k or k + 1 sweeps, the top halo row of
\* r equals the last interior row of rank r-1 after k sweeps and the bottom
\* halo row of r equals the first interior row of rank r+1 after k sweeps.
C16_HaloFresh ==
    \A r \in Ranks :
        Computing(r) =>
            /\ r > 0 =>
                  /\ sweeps[r - 1] \in {sweeps[r], sweeps[r] + 1}
                  /\ RowAt(sand[r], 0)
                        = RowAt(BufferAfter(r - 1, sweeps[r]),
                                OwnedRows(r - 1) * (width + 2))
            /\ r < size - 1 =>
                  /\ sweeps[r + 1] \in {sweeps[r], sweeps[r] + 1}
                  /\ RowAt(sand[r], (OwnedRows(r) + 1) * (width + 2))
                        = RowAt(BufferAfter(r + 1, sweeps[r]), width + 2)

\* third sweep of three one-row workers on the 3 x 3 grid: the middle worker
\* computes with both halo rows holding grains while the worker above it has
\* already swapped its buffers
C16_Witness ==
    /\ variant = "mpi" /\ height = 3 /\ width = 3 /\ size = 3
    /\ pc[1] = "cell" /\ sweeps[1] = 2 /\ sweeps[0] = 3 /\ sweeps[2] = 2
    /\ Cell(sand[1], 0, 2) > 0 /\ Cell(sand[1], 2, 2) > 0
    /\ Cell(sand[0], 1, 2) # Cell(next[0], 1, 2)

\* ---- C17 -----------------------------------------------------------------------
\* C17: while a rank is in the compute phase no row sent to it is still in
\* flight (each receive it issued for the sweep has stored its row), and a row
\* it sent that the neighbour has not yet received, at most one per
\* neighbour, still equals the row of the current buffer it was sent from.
C17_NoOutstandingTransfer ==
    \A r \in Ranks :
        Computing(r) =>
            /\ r > 0 =>
                  /\ chan[r - 1][r] = <<>>
                  /\ Len(chan[r][r - 1]) <= 1
                  /\ \A k \in DOMAIN chan[r][r - 1] :
                        chan[r][r - 1][k] = RowAt(sand[r], width + 2)
            /\ r < size - 1 =>
                  /\ chan[r + 1][r] = <<>>
                  /\ Len(chan[r][r + 1]) <= 1
                  /\ \A k \in DOMAIN chan[r][r + 1] :
                        chan[r][r + 1][k]
                           = RowAt(sand[r], OwnedRows(r) * (width + 2))

\* second sweep of two workers on the 3 x 3 grid: the lower worker computes
\* while the row it sent is still waiting to be received by the upper worker
C17_Witness ==
    /\ variant = "mpi" /\ height = 3 /\ width = 3 /\ size = 2
    /\ pc[1] = "cell" /\ sweeps[1] = 1
    /\ pc[0] = "sendrecvDownWait"
    /\ Len(chan[1][0]) = 1 /\ chan[1][0][1][2] > 0

\* ---- C18 -----------------------------------------------------------------------
\* the reduction of the rank's last completed sweep has returned on the rank
Reduced(r) == pc[r] # "allreduceWait"

\* every rank has completed the same sweeps, at least one, and none has begun
\* the compute phase of the next: every local_changed is the flag of that
\* sweep
SameSweepFlags ==
    \A q \in Ranks : sweeps[q] = sweeps[0] /\ sweeps[0] >= 1 /\ pc[q] # "cell"

\* C18: the global flag a rank holds after the reduction of a sweep is the OR
\* of all ranks' local flags of that sweep and is the same on every rank that
\* holds the flag of that sweep; a rank leaves the loop only with the flag
\* false, no rank completes more sweeps than a rank that has left the loop,
\* and all ranks that have left it have completed the same number of sweeps.
C18_Consensus ==
    variant = "mpi" =>
        /\ SameSweepFlags =>
              \A r \in Ranks :
                  Reduced(r) =>
                      global_changed[r] = (\E q \in Ranks : local_changed[q])
        /\ \A r, q \in Ranks :
              (sweeps[r] = sweeps[q] /\ Reduced(r) /\ Reduced(q)) =>
                  global_changed[r] = global_changed[q]
        /\ \A r, q \in Ranks :
              LoopExited(r) => ~global_changed[r] /\ sweeps[q] <= sweeps[r]

\* two rows, three workers, after the first sweep: the idle worker holds the
\* global flag true although its own flag is false
C18_Witness ==
    /\ variant = "mpi" /\ height = 2 /\ size = 3
    /\ SameSweepFlags /\ sweeps[0] = 1
    /\ pc[2] = "sendrecvUp"
    /\ global_changed[2] /\ ~local_changed[2] /\ local_changed[0]
    /\ pc[0] = "allreduceWait"

\* ---- C19 -----------------------------------------------------------------------
\* the rank is exchanging halo rows or computing
InSweep(r) ==
    /\ variant = "mpi"
    /\ pc[r] \in {"sendrecvUp", "sendrecvUpWait", "sendrecvDown",
                  "sendrecvDownWait", "compute", "cell"}

\* the number of the sweep the rank is in, counted from 1: a rank inside the
\* reduction, or past the loop, is still in the sweep it completed last
SweepIndex(r) ==
    IF pc[r] = "allreduceWait" \/ LoopExited(r) THEN sweeps[r]
    ELSE sweeps[r] + 1

\* C19 as claimed: whenever a rank is exchanging or computing, every rank is
\* in the same sweep: the reduction of the previous sweep has returned on
\* every rank.
C19_StrictLockStep ==
    \A r, q \in Ranks : InSweep(r) => SweepIndex(q) = SweepIndex(r)

\* C19: whenever a rank is exchanging or computing, every other rank is in the
\* same sweep, or has handed its flag to the reduction of the previous sweep
\* and has not yet returned from it, every rank having handed in its flag.
C19_LockStep ==
    \A r, q \in Ranks :
        InSweep(r) =>
            \/ SweepIndex(q) = SweepIndex(r)
            \/ /\ pc[q] = "allreduceWait"
               /\ sweeps[q] = sweeps[r]
               /\ \A p \in Ranks : Len(contrib[p]) >= sweeps[q]

\* three workers on the 3 x 3 grid: worker 0 computes in sweep 3 while worker
\* 2 has not yet returned from the reduction of sweep 2
C19_Witness ==
    /\ variant = "mpi" /\ height = 3 /\ width = 3 /\ size = 3
    /\ pc[0] = "cell" /\ sweeps[0] = 2
    /\ pc[2] = "allreduceWait" /\ sweeps[2] = 2
    /\ pc[1] = "sendrecvUpWait" /\ sweeps[1] = 2

\* ---- C20 -----------------------------------------------------------------------
\* the rank has updated every cell of the sweep and not yet swapped
ComputeDone(r) == pc[r] = "cell" /\ y[r] > OwnedRows(r)

\* visiting orders of the lh * width cells of a partition: every order when
\* the partition is small, else the reverse of the program's order and the
\* column-major order
Orders(lh) ==
    LET n == lh * width
    IN IF n <= MaxOrderCells THEN Permutations(1 .. n)
       ELSE {[i \in 1 .. n |-> n + 1 - i],
             [i \in 1 .. n |-> ((i - 1) % lh) * width + ((i - 1) \div lh) + 1]}

\* the buffer with every interior cell replaced by fill
Scrub(buf, lh, fill) ==
    [i \in DOMAIN buf |->
        IF /\ i \div (width + 2) \in 1 .. lh
           /\ i % (width + 2) \in 1 .. width
        THEN fill ELSE buf[i]]

\* C20: when a rank has updated every cell of a sweep, the next buffer and the
\* flag it has are those that the updates give in every other visiting order
\* of its cells, read from the current buffer as it still is, whatever the
\* interior of the next buffer held before (0 or 7 grains).
C20_OrderIndependent ==
    \A r \in Ranks :
        ComputeDone(r) =>
            \A order \in Orders(OwnedRows(r)) : \A fill \in {0, 7} :
                LET res == SweepInOrder(sand[r],
                                        Scrub(next[r], OwnedRows(r), fill),
                                        FALSE, order)
                IN res.next = next[r] /\ res.changed = Flag(r)

\* the serial program at the end of the first sweep of the 2 x 2 grid: every
\* cell went from 4 to 2
C20_Witness ==
    /\ variant = "serial" /\ height = 2 /\ width = 2
    /\ ComputeDone(0) /\ sweeps[0] = 0
    /\ Cell(sand[0], 1, 1) = 4 /\ Cell(next[0], 1, 1) = 2
    /\ Cell(next[0], 2, 2) = 2
    /\ Flag(0)

\* ---- C21 -----------------------------------------------------------------------
\* index in the buffers of the cell of iteration c
CellIndex(c) == ((c \div width) + 1) * (width + 2) + (c % width) + 1

\* the parallel region of sandpile_OpenMP.c is running, before and after the step
InRegion == variant = "omp" /\ pc[0] = "parallel" /\ pc'[0] = "parallel"

\* C21: in a sweep of the OpenMP variant every interior cell is assigned to
\* exactly one thread, no cell of next is written by two threads or twice,
\* a step of a thread writes at most the cell of the iteration it executes,
\* the current buffer is not written while the region runs, and when the
\* region ends every cell has been written exactly once by its thread
C21_OneWriterPerCell ==
    [][ /\ (variant = "omp" /\ pc'[0] = "parallel") =>
             \A c \in DOMAIN team'.assign :
                /\ Cardinality(team'.assign[c]) = 1
                /\ Len(team'.wrote[c]) <= 1
                /\ \A i \in 1 .. Len(team'.wrote[c]) : team'.wrote[c][i] \in team'.assign[c]
        /\ InRegion =>
             /\ sand'[0] = sand[0]
             /\ team'.assign = team.assign
             /\ \A k \in DOMAIN next[0] :
                   \/ next'[0][k] = next[0][k]
                   \/ \E c \in DOMAIN team.wrote :
                         k = CellIndex(c) /\ team'.wrote[c] # team.wrote[c]
        /\ (variant = "omp" /\ pc[0] = "parallel" /\ pc'[0] = "loop") =>
             /\ DOMAIN team.wrote = 0 .. height * width - 1
             /\ \A c \in DOMAIN team.wrote :
                   Len(team.wrote[c]) = 1 /\ team.wrote[c][1] \in team.assign[c]
       ]_vars

\* two threads of one team have each written a cell of the running sweep
C21_Witness ==
    /\ variant = "omp"
    /\ pc[0] = "parallel"
    /\ \E c, d \in DOMAIN team.wrote : team.wrote[c] = <<0>> /\ team.wrote[d] = <<1>>

\* ---- C22 -----------------------------------------------------------------------
\* C22: in the OpenMP variant the flag the while loop tests after a sweep is
\* the OR of the private flags of all threads; for every team size and
\* every assignment of cells to threads the grids and the flag after sweep k
\* are those of the serial program after k sweeps, and the run ends after
\* the serial program's number of sweeps with its final grid in the image
C22_RefinesSerial ==
    /\ (variant = "omp" /\ pc[0] \in {"loop", "done"} /\ sweeps[0] >= 1) =>
          /\ changed[0] = (\E t \in Threads : team.priv[t])
          /\ changed[0] = team.changed_int
          /\ sand[0] = SerialAfter(sweeps[0]).sand
          /\ next[0] = SerialAfter(sweeps[0]).next
          /\ changed[0] = SerialAfter(sweeps[0]).changed
    /\ (variant = "omp" /\ pc[0] = "done") =>
          /\ sweeps[0] = SerialRun.sweeps
          /\ sand[0] = SerialRun.sand
          /\ out[0] = GridImage(SerialRun.sand)
    /\ (variant = "serial" /\ pc[0] = "loop" /\ sweeps[0] >= 1) =>
          /\ sand[0] = SerialAfter(sweeps[0]).sand
          /\ changed[0] = SerialAfter(sweeps[0]).changed

\* a team of two has finished the run, and in its last sweep one thread
\* executed no iteration
C22_Witness ==
    /\ variant = "omp"
    /\ pc[0] = "done"
    /\ team.nthreads = 2
    /\ sweeps[0] >= 2
    /\ \E t \in Threads : \A c \in DOMAIN team.assign : t \notin team.assign[c]

\* ---- C23 -----------------------------------------------------------------------
\* the cells the compute loop of rank r has visited in the running phase
Visited(r) ==
    {rc \in (1 .. OwnedRows(r)) \X (1 .. width) :
        rc[1] < y[r] \/ (rc[1] = y[r] /\ rc[2] < x[r])}

\* C23: the local changed flag is false when a compute phase starts and, at
\* every point of the phase, true exactly when a cell visited so far in this
\* phase got a new value different from its current one, so at the end of the
\* phase it is true iff some owned interior cell changed and nothing of the
\* previous sweep is left in it; in sandpile_OpenMP.c the same holds of each
\* thread's private flag and of the reduced flag after the sweep
C23_FlagIsThisSweeps ==
    /\ \A r \in Ranks :
          (variant = "mpi" /\ pc[r] = "cell") =>
             /\ (y[r] = 1 /\ x[r] = 1) => ~local_changed[r]
             /\ local_changed[r] =
                   (\E rc \in Visited(r) :
                       Cell(next[r], rc[1], rc[2]) # Cell(sand[r], rc[1], rc[2]))
    /\ (variant = "omp" /\ pc[0] = "parallel") =>
          /\ ~team.changed_int
          /\ \A t \in Threads :
                team.priv[t] = (\E c \in DOMAIN team.wrote :
                              /\ \E i \in 1 .. Len(team.wrote[c]) : team.wrote[c][i] = t
                              /\ next[0][CellIndex(c)] # sand[0][CellIndex(c)])
    /\ (variant = "omp" /\ pc[0] \in {"loop", "done"} /\ sweeps[0] >= 1) =>
          changed[0] = (\E c \in 0 .. height * width - 1 :
                           sand[0][CellIndex(c)] # next[0][CellIndex(c)])

\* a rank that owns rows ends a compute phase with the flag false after an
\* earlier phase of it had ended with the flag true
C23_Witness ==
    /\ variant = "mpi"
    /\ \E r \in Ranks :
          /\ ComputeDone(r)
          /\ OwnedRows(r) >= 1
          /\ ~local_changed[r]
          /\ \E i \in 1 .. Len(contrib[r]) : contrib[r][i]

\* ---- C24 -----------------------------------------------------------------------
\* C24: once a rank of the distributed run has left the loop it stays out of
\* it and no step of any rank changes a cell of its two buffers; what it
\* packs for the assembler is the interior of its current buffer, and every
\* interior cell of that buffer has the same value in the other buffer
C24_BuffersFrozenAfterLoop ==
    [][\A r \in Ranks :
          (variant = "mpi" /\ LoopExited(r)) =>
             /\ LoopExited(r)'
             /\ sand'[r] = sand[r]
             /\ next'[r] = next[r]
             /\ \A row \in 1 .. OwnedRows(r) : \A col \in 1 .. width :
                   Cell(sand[r], row, col) = Cell(next[r], row, col)
             /\ (pc[r] = "pack" /\ pc'[r] # "pack") =>
                   /\ sendbuf'[r] = Flatten(sand[r], OwnedRows(r))
                   /\ sendbuf'[r] = Flatten(next[r], OwnedRows(r))
      ]_vars

\* the image is written while another rank, out of the loop after five
\* sweeps, has not yet packed its rows, which are not all zero
C24_Witness ==
    /\ variant = "mpi"
    /\ pc[0] = "fclose"
    /\ \E r \in Ranks :
          /\ r # 0
          /\ pc[r] = "finalize"
          /\ sweeps[r] = 5
          /\ \E row \in 1 .. OwnedRows(r) : \E col \in 1 .. width :
                Cell(sand[r], row, col) # 0

\* ---- C25 -----------------------------------------------------------------------
\* the ranks whose next call rank r is blocked on: the sender of the row it
\* receives, the ranks that have not entered the reduction or the gather it
\* is in
WaitsFor(r) ==
    IF pc[r] = "sendrecvUpWait" /\ chan[r - 1][r] = <<>> THEN {r - 1}
    ELSE IF pc[r] = "sendrecvDownWait" /\ chan[r + 1][r] = <<>> THEN {r + 1}
    ELSE IF pc[r] = "allreduceWait"
         THEN {q \in Ranks : Len(contrib[q]) < Len(contrib[r])}
    ELSE IF pc[r] = "gatherRoot" THEN {q \in Ranks : gatherMsg[q] = <<>>}
    ELSE IF pc[r] = "gathervRoot" THEN {q \in Ranks : gathervMsg[q] = <<>>}
    ELSE {}

\* the ranks reached from the set S along at most n waits
RECURSIVE WaitChain(_, _)
WaitChain(S, n) ==
    IF n = 0 THEN S
    ELSE WaitChain(S \cup UNION {WaitsFor(q) : q \in S}, n - 1)

\* no rank is stuck and no communication is left unmatched
NeverStuck ==
    variant = "mpi" =>
       /\ \A r \in Ranks :
             pc[r] # "done" =>
                /\ ENABLED RankNext(r) <=> WaitsFor(r) = {}
                /\ \A q \in WaitsFor(r) : pc[q] # "done"
                /\ r \notin WaitChain(WaitsFor(r), size)
       /\ (\E r \in Ranks : pc[r] # "done") =>
             \E r \in Ranks : ENABLED RankNext(r)
       /\ \A p, q \in Ranks : Len(chan[p][q]) <= 1
       /\ (\A r \in Ranks : pc[r] = "done") =>
             /\ \A p, q \in Ranks : chan[p][q] = <<>>
             /\ \A r \in Ranks : Len(contrib[r]) = Len(contrib[0])
             /\ \A r \in Ranks : gatherMsg[r] # <<>> /\ gathervMsg[r] # <<>>

\* C25: the distributed run cannot get stuck, for every workerCount: a rank
\* that has not returned either can take a step or waits for ranks that have
\* not returned, and no chain of waits leads back to its start; a channel
\* never holds more than the one row of the running sweep; every rank gets
\* through every exchange, reduction and gather and returns, and then
\* every row sent was received, all ranks made the same number of reductions
\* and rank 0 got the contribution of every rank to both gathers
C25_DeadlockFree ==
    /\ []NeverStuck
    /\ <>(\A r \in Ranks : pc[r] = "done" /\ exit_status[r] = "EXIT_SUCCESS")

\* a chain of waits in a run of three ranks: a rank waits for a rank that is
\* itself waiting for a third
C25_Witness ==
    /\ variant = "mpi"
    /\ size = 3
    /\ \E r \in Ranks : \E q \in WaitsFor(r) :
          /\ sweeps[r] >= 1
          /\ WaitsFor(q) # {}
          /\ r \notin WaitsFor(q)

\* ---- C26 -----------------------------------------------------------------------
\* C26: the pixel counts localHeight_i * width of the ranks sum to
\* height * width, the assembled buffer has exactly the indices
\* 0 .. height * width - 1, each of them filled by the gather, so every read
\* of the image writer falls inside the buffer and the image has one pixel
\* per cell, for every workerCount, those that do not divide height included
C26_ReadsInsideBuffer ==
    variant = "mpi" =>
       /\ AllAllocated =>
             /\ SumRows(size - 1) * width = height * width
             /\ \A r \in Ranks : LocalPixels(r) = OwnedRows(r) * width
       /\ pc[0] \in {"pack", "gathervRoot"} \/ Assembled =>
             /\ TotalPixels(recvcounts, size - 1) = height * width
             /\ DOMAIN final_data[0].data = 0 .. height * width - 1
       /\ Assembled =>
             \A i \in 0 .. height * width - 1 :
                /\ i \in DOMAIN final_data[0].data
                /\ final_data[0].data[i] # UNINIT
       /\ pc[0] \in {"fclose", "finalize", "done"} =>
             /\ Len(out[0]) = 1 + height * width
             /\ \A i \in 1 .. height * width :
                   /\ out[0][i + 1] # <<UNINIT>>
                   /\ out[0][i + 1] = Colour(final_data[0].data[i - 1])

\* the image of a 3-row grid gathered from a 2-row and a 1-row rank has been
\* written: the pixel of index 7 is the red of a cell at 3
C26_Witness ==
    /\ variant = "mpi" /\ height = 3 /\ width = 3 /\ size = 2
    /\ pc[0] = "fclose"
    /\ Len(out[0]) = 10
    /\ out[0][9] = <<255, 0, 0>>

\* ---- C27 -----------------------------------------------------------------------
\* sum of f[0] .. f[n - 1]
RECURSIVE SumTo(_, _)
SumTo(f, n) == IF n = 0 THEN 0 ELSE SumTo(f, n - 1) + f[n - 1]

\* grains in the interior cells the ranks hold in the buffers bufs
Grains(bufs) ==
    SumTo([r \in Ranks |->
              SumTo(Flatten(bufs[r], OwnedRows(r)), OwnedRows(r) * width)],
          size)

\* number of sink cells among the four neighbours of the cell (row, col) of
\* the global grid
SinkNeighbours(row, col) ==
    (IF row = 1 THEN 1 ELSE 0) + (IF row = height THEN 1 ELSE 0)
    + (IF col = 1 THEN 1 ELSE 0) + (IF col = width THEN 1 ELSE 0)

\* grains a sweep over the grid held in bufs sends to sink cells:
\* floor(v / 4) for each sink neighbour of a cell holding v
SinkLoss(bufs) ==
    SumTo([r \in Ranks |->
              SumTo([k \in 0 .. OwnedRows(r) * width - 1 |->
                        (Flatten(bufs[r], OwnedRows(r))[k] \div 4)
                        * SinkNeighbours(SumRows(r) - OwnedRows(r)
                                         + (k \div width) + 1,
                                         (k % width) + 1)],
                    OwnedRows(r) * width)],
          size)

\* every process has completed k sweeps and has not begun the next
AllAtSweepEnd == \A r \in Ranks : AtSweepEnd(r) /\ sweeps[r] = sweeps[0]

\* C27: no cell of any buffer is ever negative; when all processes have
\* finished a sweep, the grains in the interior of the grid (the current
\* buffers) are the grains it held before the sweep (the other buffers)
\* minus floor(v / 4) for every sink neighbour of every cell holding v, so
\* the total never increases and never exceeds the seeded total
C27_GrainConservation ==
    /\ \A r \in Ranks :
          /\ \A i \in DOMAIN sand[r] : sand[r][i] >= 0
          /\ \A i \in DOMAIN next[r] : next[r][i] >= 0
    /\ (AllAtSweepEnd /\ sweeps[0] >= 1) =>
          /\ Grains(sand) = Grains(next) - SinkLoss(next)
          /\ Grains(sand) <= Grains(next)
          /\ Grains(next) <= SEED * height * width

\* three ranks have finished the third sweep of the 3 x 3 grid, in which
\* grains were lost to the sink
C27_Witness ==
    /\ variant = "mpi" /\ height = 3 /\ width = 3 /\ size = 3
    /\ AllAtSweepEnd
    /\ sweeps[0] = 3
    /\ SinkLoss(next) > 0

\* ---- C28 -----------------------------------------------------------------------
\* number of rows of the global grid above the first row of rank r
RowOffset(r) == SumTo([q \in Ranks |-> LocalHeight(q)], r)

\* the rows of the band of rank r in a grid of the serial program, as the
\* rank would pack them
BandOf(grid, r) ==
    [k \in 0 .. LocalHeight(r) * width - 1 |->
        grid[(RowOffset(r) + (k \div width) + 1) * Cols + (k % width) + 1]]

\* rank r has just finished a sweep or just left the loop; its buffers are
\* not written from here to the compute phase of its next sweep
SweepJustDone(r) == AtSweepEnd(r) \/ pc[r] = "gather"

\* rank r is at the first call of a pass through the loop body
AtLoopTop(r) == InSweep(r) /\ pc[r] = LoopBody(r)

\* C28: in the distributed run the interior rows of every rank, after each of
\* its sweeps k, are the rows of its band in the grid the serial loop holds
\* after k sweeps (so the bands laid end to end in rank order are that grid),
\* the buffer swapped out holds the band after k - 1 sweeps, the reduced flag
\* is the serial flag of sweep k, and every rank leaves the loop after the
\* serial program's number of sweeps
C28_SweepwiseRefinement ==
    variant = "mpi" =>
       \A r \in Ranks :
          /\ (pc[r] # "start" /\ sweeps[r] = 0) =>
                /\ OwnedRows(r) = LocalHeight(r)
                /\ Flatten(sand[r], OwnedRows(r)) = BandOf(SerialAfter(0).sand, r)
          /\ (SweepJustDone(r) \/ (AtLoopTop(r) /\ sweeps[r] >= 1)) =>
                LET serial == SerialAfter(sweeps[r])
                IN /\ Flatten(sand[r], OwnedRows(r)) = BandOf(serial.sand, r)
                   /\ Flatten(next[r], OwnedRows(r)) = BandOf(serial.next, r)
                   /\ AtLoopTop(r) => global_changed[r] /\ serial.changed
                   /\ pc[r] = "gather" =>
                         /\ ~global_changed[r]
                         /\ ~serial.changed
                         /\ sweeps[r] = SerialRun.sweeps

\* two ranks of a 3-row grid are between the third and the fourth sweep, one
\* already past the reduction
C28_Witness ==
    /\ variant = "mpi" /\ height = 3 /\ width = 3 /\ size = 2
    /\ sweeps[0] = 3 /\ sweeps[1] = 3
    /\ pc[0] = "allreduceWait"
    /\ AtLoopTop(1)
    /\ Cell(sand[1], 1, 2) # Cell(next[1], 1, 2)

\* ---- C29 -----------------------------------------------------------------------
\* C29: in a run with several MPI processes only rank 0 ever opens the output
\* file sandpile.ppm or writes to it, no two processes have it open at the
\* same time, and what rank 0 has written when it closes the file is the
\* header and one pixel for every cell of the height x width grid
C29_SingleWriter ==
    (variant \in {"mpi", "replicated"} /\ size >= 2 /\ height >= 1) =>
       /\ \A r \in Ranks \ {0} : fp[r] = "unset" /\ out[r] = <<>>
       /\ Cardinality({r \in Ranks : fp[r] = "open"}) <= 1
       /\ fp[0] = "closed" => Len(out[0]) = 1 + height * width

====
